---- MODULE Spec2Model ----
(***************************************************************************)
(* Model of yke-t/entropic-aurora.                                         *)
(*                                                                         *)
(*  - Spec:          the PDF acquisition stage (src/src/pdf_downloader.py): *)
(*                   download_papers / download_papers_batch /             *)
(*                   download_with_limit / download_pdf_async, as asyncio  *)
(*                   tasks whose steps are the code between two awaits.    *)
(*  - SpecLive:      one call of download_papers_batch under fairness.     *)
(*  - SpecPipeline:  the sequential annotation pipelines                   *)
(*                   (screener.py, shorts_scorer.py, translator.py).       *)
(*  - SpecVerdict:   judge_verdict; SpecFilter: filter_by_verdict.         *)
(*  - SpecVideo:     ShortsVideoGenerator.process_papers.                  *)
(*  - SpecSelect:    Screener.select_top_papers; SpecStages: the stages    *)
(*                   that are handed the papers.                           *)
(*  - SpecExport:    the CSV and summary writers; SpecMain: main.          *)
(***************************************************************************)
EXTENDS Naturals, Integers, Sequences, FiniteSets, TLC

\* ------------------------------------------------------------------ bounds
MaxBatch == 2
MaxConcurrent == 2
MaxRuns == 2

\* ------------------------------------------------------- program constants
MAX_RETRIES == 3
BACKOFF_FACTOR == 2

\* --------------------------------------------------------------- the items
\* Identifiers are character sequences, so that the "/" -> "_" replacement of
\* download_pdf_async is computed and not assumed.
Ids == { <<"a", "/", "b">>, <<"a", "_", "b">>, <<"c">> }

\* A paper of the acquisition stage: its "id" and whether "pdf_url" is set.
Papers == [id : Ids, pdf_url : BOOLEAN]

Batches == UNION { [1..n -> Papers] : n \in 0..MaxBatch }

\* mutant: every item counts as having a locator
HasLocatorAlways(paper) == TRUE

\* pdf_url = paper.get("pdf_url") is neither missing nor empty
HasLocator(paper) == paper.pdf_url

\* mutant: every item is filed under one key, as if no item carried an id
PaperKeyUnknown(paper) == <<"c">>

\* paper.get("id", "unknown"): the key of the outcome map
PaperKey(paper) == paper.id

\* str.replace("/", "_")
ReplaceSlash(s) == [k \in 1..Len(s) |-> IF s[k] = "/" THEN "_" ELSE s[k]]

\* output_dir / f"{paper_id}.pdf"
OutputPath(paper) == ReplaceSlash(paper.id) \o <<".pdf">>

Paths == { OutputPath(p) : p \in Papers }

\* ---------------------------------------------------------------- the disk
NoFile == [exists |-> FALSE, whole |-> FALSE, payload |-> <<>>]
WholeFile(id) == [exists |-> TRUE, whole |-> TRUE, payload |-> id]
\* open(path, "wb") has created or truncated the file, the bytes are not all there
PartFile(id) == [exists |-> TRUE, whole |-> FALSE, payload |-> id]

\* mutant: the payload is appended to what the destination already holds
WriteBytesAppend(d, path, payload) ==
    [d EXCEPT ![path] = IF d[path].exists
                          THEN [exists |-> TRUE, whole |-> FALSE,
                                payload |-> d[path].payload \o payload]
                          ELSE WholeFile(payload)]

\* output_path.write_bytes(response.content): the destination is created or
\* truncated and holds the payload of this response, whatever it held before
WriteBytes(d, path, payload) == [d EXCEPT ![path] = WholeFile(payload)]

\* mutant: the resume check never sees the file
PathExistsNever(d, path) == FALSE

\* output_path.exists()
PathExists(d, path) == d[path].exists

\* mutant: only successes are stored
PutOnlySuccess(m, k, v) ==
    IF v THEN [x \in (DOMAIN m) \cup {k} |-> IF x = k THEN v ELSE m[x]] ELSE m

\* results[paper_id] = success
Put(m, k, v) == [x \in (DOMAIN m) \cup {k} |-> IF x = k THEN v ELSE m[x]]

EmptyMap == [x \in {} |-> FALSE]

\* mutant: a linear backoff
WaitTimeLinear(a) == BACKOFF_FACTOR * a

\* BACKOFF_FACTOR ** attempt
WaitTime(a) == BACKOFF_FACTOR ^ a

\* mutant: one iteration too many
HasNextAttemptOneMore(a) == a < MAX_RETRIES

\* for attempt in range(max_retries): is there an iteration after attempt a
HasNextAttempt(a) == a + 1 < MAX_RETRIES

VARIABLES
    papers,          \* the batch handed to download_papers
    max_concurrent,  \* the cap handed to download_papers
    run,             \* which call of download_papers this is (1, 2, ...)
    how,             \* "fresh" | "rerun" (after a completed run) | "killed"
    phase,           \* "running" | "returned" | "raised"
    pc,              \* per task: "pending" | "get" | "sleep" | "done"
    attempt,         \* per task: the loop variable of download_pdf_async
    semaphore,       \* asyncio.Semaphore._value
    results,         \* the dict filled by download_with_limit
    returned,        \* what download_papers_batch returned
    disk,            \* output_dir: path -> file
    diskAtStart,     \* disk when the current run started
    ret,             \* per task: "none" | "ok" | "fail" (download_pdf_async
                     \* returned True / False) | "raised" (the task raised)
    existed,         \* per task: output_path.exists() held when it was called
    requests,        \* per task: client.get calls issued in this run
    failures,        \* per task: attempts that raised in this run
    waits,           \* per task: the asyncio.sleep arguments, in order
    fileWrites,      \* per task: write_bytes calls completed in this run
    keyWrites        \* per key: assignments results[key] = ... in this run

dvars == << papers, max_concurrent, run, how, phase, pc, attempt, semaphore,
            results, returned, disk, diskAtStart, ret, existed, requests,
            failures, waits, fileWrites, keyWrites >>

\* the state of an annotation pipeline
VARIABLES
    stage,      \* which pipeline runs: "screen" | "score" | "translate" |
                \* "script" | "canva"
    batch,      \* the list handed to the pipeline (papers)
    scores,     \* shorts_scores handed to generate_scripts / generate_texts
    loop_i,     \* the loop variable i (0-based index of the current item)
    ppc,        \* "loop" | "calling" | "sleep" | "returned"
    out,        \* the local list results
    answer,     \* what the pipeline returned
    calls,      \* the indices whose model call was started, in order
    given,      \* what each model call did (its reply or its exception), in order
    sleeps      \* the indices after which time.sleep was called, in order

pvars == << stage, batch, scores, loop_i, ppc, out, answer, calls, given, sleeps >>

\* one application of shorts_scorer.judge_verdict
VARIABLES
    total,      \* the total score handed to judge_verdict, in 1/Scale points
    verdict     \* what judge_verdict returned ("none" before the call)

jvars == << total, verdict >>

\* the state of ShortsVideoGenerator.process_papers
VARIABLES
    vpapers,    \* papers
    vscores,    \* shorts_scores
    vcands,     \* candidates_sorted
    v_i,        \* the loop variable i
    vpc,        \* "loop" | "calling" | "sleep" | "saved" | "returned"
    vresults,   \* the local list results
    vaudio,     \* the local list audio_results
    vtrace,     \* the model calls and time.sleep calls made, in order
    vmoviepy,   \* enable_moviepy and MOVIEPY_AVAILABLE
    v_j,        \* how many items of audio_results the rendering loop has passed
    vvideo,     \* the local list video_results
    vmade,      \* the texts generated, each with the index i + 1 of its candidate
    vrenders,   \* the render_video calls made, in order
    vsummary    \* what process_papers returned

vvars == << vpapers, vscores, vcands, v_i, vpc, vresults, vaudio, vtrace,
            vmoviepy, v_j, vvideo, vmade, vrenders, vsummary >>

\* one call of Screener.select_top_papers
VARIABLES
    screening_results,  \* the list of results handed to select_top_papers
    s_papers,           \* the list of papers handed to select_top_papers
    top_n,              \* top_n
    min_score,          \* min_score
    spc,                \* "call" | "returned" | "raised"
    sorted_results,     \* the local sorted_results, as 1-based positions in
                        \* screening_results (the list holds the same objects)
    joined,             \* the positions whose result was joined to a paper
    selected            \* what select_top_papers returned

svars == << screening_results, s_papers, top_n, min_score, spc,
            sorted_results, joined, selected >>

\* one run of the formatting steps over a list of results
VARIABLES
    e_results,  \* the list of results handed to the formatting steps
    epc,        \* "call" | "written"
    canva_rows, \* the rows CanvaGenerator.save_csv wrote
    csv_rows,   \* the rows main's save_csv wrote to the translated CSV
    summary     \* the entries generate_daily_summary made

evars == << e_results, epc, canva_rows, csv_rows, summary >>

\* one run of main
VARIABLES
    api_key,    \* os.getenv("GEMINI_API_KEY") is set
    mpc,        \* the position of main
    fetched,    \* papers returned by get_papers_by_category
    work,       \* the per-item work done so far, in order
    surfaced    \* how often the missing key was reported

mvars == << api_key, mpc, fetched, work, surfaced >>

\* one call of ShortsScorer.filter_by_verdict
VARIABLES
    f_scores,     \* scores
    include_mid,  \* include_mid
    fpc,          \* "call" | "returned"
    filtered      \* what filter_by_verdict returned

fvars == << f_scores, include_mid, fpc, filtered >>

\* what the actions of one component leave alone
notD == << pvars, jvars, vvars, svars, evars, mvars, fvars >>
notP == << dvars, jvars, vvars, svars, evars, mvars, fvars >>
notJ == << dvars, pvars, vvars, svars, evars, mvars, fvars >>
notV == << dvars, pvars, jvars, svars, evars, mvars, fvars >>
notS == << dvars, pvars, jvars, vvars, evars, mvars, fvars >>
notE == << dvars, pvars, jvars, vvars, svars, mvars, fvars >>
notM == << dvars, pvars, jvars, vvars, svars, evars, fvars >>
notF == << dvars, pvars, jvars, vvars, svars, evars, mvars >>

Tasks == 1..Len(papers)

\* asyncio.Semaphore(max_concurrent); tasks = [download_with_limit(p) ...]
StartRun(d, r, h) ==
    /\ run' = r
    /\ how' = h
    /\ phase' = "running"
    /\ pc' = [i \in Tasks |-> "pending"]
    /\ attempt' = [i \in Tasks |-> 0]
    /\ semaphore' = max_concurrent
    /\ results' = EmptyMap
    /\ returned' = EmptyMap
    /\ disk' = d
    /\ diskAtStart' = d
    /\ ret' = [i \in Tasks |-> "none"]
    /\ existed' = [i \in Tasks |-> FALSE]
    /\ requests' = [i \in Tasks |-> 0]
    /\ failures' = [i \in Tasks |-> 0]
    /\ waits' = [i \in Tasks |-> <<>>]
    /\ fileWrites' = [i \in Tasks |-> 0]
    /\ keyWrites' = [k \in Ids |-> 0]

DInit ==
    /\ papers \in Batches
    /\ max_concurrent \in 1..MaxConcurrent
    /\ run = 1
    /\ how = "fresh"
    /\ phase = "running"
    /\ pc = [i \in Tasks |-> "pending"]
    /\ attempt = [i \in Tasks |-> 0]
    /\ semaphore = max_concurrent
    /\ results = EmptyMap
    /\ returned = EmptyMap
    /\ disk = [p \in Paths |-> NoFile]
    /\ diskAtStart = [p \in Paths |-> NoFile]
    /\ ret = [i \in Tasks |-> "none"]
    /\ existed = [i \in Tasks |-> FALSE]
    /\ requests = [i \in Tasks |-> 0]
    /\ failures = [i \in Tasks |-> 0]
    /\ waits = [i \in Tasks |-> <<>>]
    /\ fileWrites = [i \in Tasks |-> 0]
    /\ keyWrites = [k \in Ids |-> 0]

\* mutant: a fetch that failed keeps its slot
ResolveKeepsSlotOnFailure(i, success, sem) ==
    /\ ret' = [ret EXCEPT ![i] = IF success THEN "ok" ELSE "fail"]
    /\ results' = Put(results, PaperKey(papers[i]), success)
    /\ keyWrites' = [keyWrites EXCEPT ![PaperKey(papers[i])] = @ + 1]
    /\ pc' = [pc EXCEPT ![i] = "done"]
    /\ semaphore' = IF success THEN sem + 1 ELSE sem

\* download_pdf_async returns `success` to download_with_limit, which stores it
\* and leaves the `async with semaphore` block; sem is the semaphore value
\* while the task holds its slot.
Resolve(i, success, sem) ==
    /\ ret' = [ret EXCEPT ![i] = IF success THEN "ok" ELSE "fail"]
    /\ results' = Put(results, PaperKey(papers[i]), success)
    /\ keyWrites' = [keyWrites EXCEPT ![PaperKey(papers[i])] = @ + 1]
    /\ pc' = [pc EXCEPT ![i] = "done"]
    /\ semaphore' = sem + 1

\* mutant: the semaphore is never waited for
CanAcquireAlways == TRUE

\* semaphore.acquire() does not block
CanAcquire == semaphore > 0

\* A pending task enters `async with semaphore` and runs download_pdf_async up
\* to its first suspension: no locator, destination present, or the first GET.
Start(i) ==
    /\ phase = "running"
    /\ pc[i] = "pending"
    /\ CanAcquire
    /\ existed' = [existed EXCEPT ![i] = PathExists(disk, OutputPath(papers[i]))]
    /\ IF ~HasLocator(papers[i])
         THEN /\ Resolve(i, FALSE, semaphore - 1)
              /\ UNCHANGED << attempt, requests >>
         ELSE IF PathExists(disk, OutputPath(papers[i]))
         THEN /\ Resolve(i, TRUE, semaphore - 1)
              /\ UNCHANGED << attempt, requests >>
         ELSE /\ pc' = [pc EXCEPT ![i] = "get"]
              /\ attempt' = [attempt EXCEPT ![i] = 0]
              /\ requests' = [requests EXCEPT ![i] = @ + 1]
              /\ semaphore' = semaphore - 1
              /\ UNCHANGED << ret, results, keyWrites >>
    /\ UNCHANGED << papers, max_concurrent, run, how, phase, returned, disk,
                    diskAtStart, failures, waits, fileWrites >>
    /\ UNCHANGED notD

\* client.get answers with a success status: write_bytes, return True
GetSucceeds(i) ==
    /\ phase = "running"
    /\ pc[i] = "get"
    /\ disk' = WriteBytes(disk, OutputPath(papers[i]), papers[i].id)
    /\ fileWrites' = [fileWrites EXCEPT ![i] = @ + 1]
    /\ Resolve(i, TRUE, semaphore)
    /\ UNCHANGED << papers, max_concurrent, run, how, phase, returned,
                    diskAtStart, attempt, existed, requests, failures, waits >>
    /\ UNCHANGED notD

\* client.get or raise_for_status raises: compute wait_time, asyncio.sleep
GetFails(i) ==
    /\ phase = "running"
    /\ pc[i] = "get"
    /\ pc' = [pc EXCEPT ![i] = "sleep"]
    /\ failures' = [failures EXCEPT ![i] = @ + 1]
    /\ waits' = [waits EXCEPT ![i] = Append(@, WaitTime(attempt[i]))]
    /\ UNCHANGED << papers, max_concurrent, run, how, phase, returned, disk,
                    diskAtStart, attempt, semaphore, results, ret, existed,
                    requests, fileWrites, keyWrites >>
    /\ UNCHANGED notD

\* mutant: the exhausted loop raises instead of returning False
LoopExhaustedRaises(i) ==
    /\ ret' = [ret EXCEPT ![i] = "raised"]
    /\ pc' = [pc EXCEPT ![i] = "done"]
    /\ semaphore' = semaphore + 1
    /\ UNCHANGED << results, keyWrites >>

\* The for loop is exhausted: logger.error, return False
LoopExhausted(i) == Resolve(i, FALSE, semaphore)

\* asyncio.sleep is over: the next iteration's GET, or the loop ends
Wake(i) ==
    /\ phase = "running"
    /\ pc[i] = "sleep"
    /\ IF HasNextAttempt(attempt[i])
         THEN /\ pc' = [pc EXCEPT ![i] = "get"]
              /\ attempt' = [attempt EXCEPT ![i] = @ + 1]
              /\ requests' = [requests EXCEPT ![i] = @ + 1]
              /\ UNCHANGED << semaphore, results, ret, keyWrites >>
         ELSE /\ LoopExhausted(i)
              /\ UNCHANGED << attempt, requests >>
    /\ UNCHANGED << papers, max_concurrent, run, how, phase, returned, disk,
                    diskAtStart, existed, failures, waits, fileWrites >>
    /\ UNCHANGED notD

\* mutant: the loop is left at the first task that completes
AnyAwaited == \E i \in Tasks : pc[i] = "done"

\* the as_completed loop has awaited every task
AllAwaited == \A i \in Tasks : pc[i] = "done"

\* `await coro` re-raises the exception of a task that raised
SomeRaised == \E i \in Tasks : ret[i] = "raised"

\* download_papers_batch leaves the as_completed loop: it returns results, or
\* the exception of a task propagates to its caller
BatchReturn ==
    /\ phase = "running"
    /\ AllAwaited \/ SomeRaised
    /\ phase' = IF SomeRaised THEN "raised" ELSE "returned"
    /\ returned' = IF SomeRaised THEN EmptyMap ELSE results
    /\ UNCHANGED << papers, max_concurrent, run, how, pc, attempt, semaphore,
                    results, disk, diskAtStart, ret, existed, requests,
                    failures, waits, fileWrites, keyWrites >>
    /\ UNCHANGED notD

\* download_papers is called again over the same batch and directory
Rerun ==
    /\ phase = "returned"
    /\ run < MaxRuns
    /\ StartRun(disk, run + 1, "rerun")
    /\ UNCHANGED << papers, max_concurrent >>
    /\ UNCHANGED notD

\* The process is killed between two steps and the acquisition is run again.
Kill ==
    /\ phase = "running"
    /\ run < MaxRuns
    /\ StartRun(disk, run + 1, "killed")
    /\ UNCHANGED << papers, max_concurrent >>
    /\ UNCHANGED notD

\* The process is killed inside write_bytes: the file is open, the payload is
\* not all written. The acquisition is run again.
KillMidWrite(i) ==
    /\ phase = "running"
    /\ run < MaxRuns
    /\ pc[i] = "get"
    /\ StartRun([disk EXCEPT ![OutputPath(papers[i])] = PartFile(papers[i].id)],
                run + 1, "killed")
    /\ UNCHANGED << papers, max_concurrent >>
    /\ UNCHANGED notD

DNext ==
    \/ \E i \in Tasks : Start(i)
    \/ \E i \in Tasks : GetSucceeds(i)
    \/ \E i \in Tasks : GetFails(i)
    \/ \E i \in Tasks : Wake(i)
    \/ BatchReturn
    \/ Rerun
    \/ Kill
    \/ \E i \in Tasks : KillMidWrite(i)

\* ====================================================================
\* The annotation pipelines: Screener.screen_papers, ShortsScorer.score_papers,
\* Translator.translate_papers, each a sequential loop over one annotator.
\* ====================================================================

MaxItems == 2

\* Python values that occur in papers, replies and results
NoneVal == [ty |-> "none", n |-> 0, s |-> ""]
Num(n) == [ty |-> "num", n |-> n, s |-> ""]
Str(s) == [ty |-> "str", n |-> 0, s |-> s]
\* a string given by its characters, where line breaks matter
Chars(cs) == [ty |-> "str", n |-> 0, s |-> "", cs |-> cs]

\* paper.get("id") of the items of a batch (None when the key is absent)
ItemIds == { Str("p1"), Str("p2"), NoneVal }

Items == [id : ItemIds, title : { Str("T") }]

ItemBatches == UNION { [1..n -> Items] : n \in 0..MaxItems }

Stages == { "screen", "score", "translate", "script", "canva" }

\* the pipelines that take shorts_scores next to papers
TakesScores(kind) == kind \in { "script", "canva" }

\* The text of a reply is a sequence of tokens: braces, prose, and the
\* "key": value members of a JSON object.
Open == [kind |-> "{", key |-> "", val |-> NoneVal]
Close == [kind |-> "}", key |-> "", val |-> NoneVal]
Prose == [kind |-> "prose", key |-> "", val |-> NoneVal]
Member(k, v) == [kind |-> "member", key |-> k, val |-> v]

\* What self.model.generate_content(prompt) / response.text can do
Raises(msg) == [exc |-> TRUE, msg |-> msg, text |-> << >>]
Text(t) == [exc |-> FALSE, msg |-> "", text |-> t]

Replies == {
    Raises("429 quota exceeded"),
    Raises("503 unavailable"),
    Text(<< Close, Prose, Open >>),
    Text(<< Open, Close >>),
    Text(<< Prose, Open, Member("total_score", Num(90)),
            Member("hook", Chars(<< "a", "\n", "b", "\r" >>)),
            Member("line1", Str("L")), Close, Prose >>),
    Text(<< Open, Member("total_score", Num(70)), Member("error", Str("x")),
            Member("paper_id", Str("zz")), Close >>),
    Text(<< Open, Member("total_score", Num(60)),
            Member("verdict", Str("ADOPT_HIGH")),
            Member("one_line_summary", Chars(<< "s", "\n", "t" >>)), Close >>),
    Text(<< Open, Member("total_score", Str("high")), Close >>),
    Text(<< Open, Member("total_score", Num(80)), Close, Prose,
            Open, Member("total_score", Num(10)), Close >>),
    Text(<< Prose, Member("total_score", Num(95)) >>),
    Text(<< Open, Member("hook", Num(3)), Close >>) }

\* result_text.find("{"): 0-based index of the first "{", -1 when there is none
RECURSIVE FindFrom(_, _)
FindFrom(t, k) ==
    IF k > Len(t) THEN -1
    ELSE IF t[k].kind = "{" THEN k - 1
    ELSE FindFrom(t, k + 1)

Find(t) == FindFrom(t, 1)

\* result_text.rfind("}"): 0-based index of the last "}", -1 when there is none
RECURSIVE RFindFrom(_, _)
RFindFrom(t, k) ==
    IF k < 1 THEN -1
    ELSE IF t[k].kind = "}" THEN k - 1
    ELSE RFindFrom(t, k - 1)

RFind(t) == RFindFrom(t, Len(t))

\* result_text[start:end] for 0 <= start < end <= len
Slice(t, start, end) == SubSeq(t, start + 1, end)

\* d[k] = v on a dict
SetKey(d, k, v) == [x \in (DOMAIN d) \cup {k} |-> IF x = k THEN v ELSE d[x]]

\* d.get(k, default)
GetKey(d, k, default) == IF k \in DOMAIN d THEN d[k] ELSE default

EmptyDict == [x \in {} |-> NoneVal]

\* the members of an object, a later duplicate key replacing an earlier one
RECURSIVE ObjectOf(_, _)
ObjectOf(ms, d) ==
    IF ms = << >> THEN d
    ELSE ObjectOf(Tail(ms), SetKey(d, Head(ms).key, Head(ms).val))

\* json.loads: the text parses when it is one object, "{" members "}"
JsonLoads(t) ==
    LET inner == SubSeq(t, 2, Len(t) - 1)
        ok == /\ Len(t) >= 2
              /\ t[1].kind = "{"
              /\ t[Len(t)].kind = "}"
              /\ \A k \in 1..Len(inner) : inner[k].kind = "member"
    IN  [ok |-> ok, obj |-> IF ok THEN ObjectOf(inner, EmptyDict) ELSE EmptyDict]

\* Scores need not be whole numbers: a score is counted in 1/Scale points,
\* so that Points(65) - 1 is the largest score below 65.
Scale == 10

Points(n) == n * Scale

\* mutant: right on whole scores only (above 79, above 64)
judge_verdict_whole(total_score) ==
    IF total_score > Points(79) THEN "ADOPT_HIGH"
    ELSE IF total_score > Points(64) THEN "ADOPT_MID"
    ELSE "SKIP"

\* shorts_scorer.judge_verdict (total_score in 1/Scale points)
judge_verdict(total_score) ==
    IF total_score >= Points(80) THEN "ADOPT_HIGH"
    ELSE IF total_score >= Points(65) THEN "ADOPT_MID"
    ELSE "SKIP"

\* mutant: every error return carries the fixed diagnostic
ErrorMarkerInvalid(kind, paper, diagnostic) ==
    LET base == SetKey(SetKey(EmptyDict, "paper_id", paper.id),
                       "error", Str("Invalid format"))
    IN  IF kind = "score" THEN SetKey(base, "verdict", Str("SKIP")) ELSE base

\* mutant: the error returns of score_paper carry no verdict
ErrorMarkerNoVerdict(kind, paper, diagnostic) ==
    SetKey(SetKey(EmptyDict, "paper_id", paper.id), "error", Str(diagnostic))

\* the dict of the two error returns of an annotator
ErrorMarker(kind, paper, diagnostic) ==
    LET base == SetKey(SetKey(EmptyDict, "paper_id", paper.id),
                       "error", Str(diagnostic))
    IN  IF kind = "score" THEN SetKey(base, "verdict", Str("SKIP")) ELSE base

\* mutant: a paper_id of the payload is kept (setdefault)
AttachKeepPayloadId(kind, paper, obj) ==
    LET result == IF "paper_id" \in DOMAIN obj THEN obj
                  ELSE SetKey(obj, "paper_id", paper.id)
    IN  IF kind = "translate"
          THEN SetKey(result, "original_title", paper.title)
        ELSE IF kind = "score"
          THEN LET total_score == GetKey(result, "total_score", Num(0))
               IN  IF total_score.ty = "num"
                     THEN SetKey(result, "verdict",
                                 Str(judge_verdict(Points(total_score.n))))
                     ELSE ErrorMarker(kind, paper, "TypeError")
        ELSE result

\* mutant: a verdict of the payload is trusted
AttachTrustModel(kind, paper, obj) ==
    LET result == SetKey(obj, "paper_id", paper.id)
    IN  IF kind = "translate"
          THEN SetKey(result, "original_title", paper.title)
        ELSE IF kind = "score"
          THEN LET total_score == GetKey(result, "total_score", Num(0))
               IN  IF total_score.ty = "num"
                     THEN IF "verdict" \in DOMAIN result THEN result
                          ELSE SetKey(result, "verdict",
                                 Str(judge_verdict(Points(total_score.n))))
                     ELSE ErrorMarker(kind, paper, "TypeError")
        ELSE result

\* what the annotator does with a parsed object before it returns it
Attach(kind, paper, obj) ==
    LET result == SetKey(obj, "paper_id", paper.id)
    IN  IF kind = "translate"
          THEN SetKey(result, "original_title", paper.title)
        ELSE IF kind = "score"
          THEN LET total_score == GetKey(result, "total_score", Num(0))
               IN  IF total_score.ty = "num"
                     THEN SetKey(result, "verdict",
                                 Str(judge_verdict(Points(total_score.n))))
                     \* `>=` between str and int raises TypeError, caught below
                     ELSE ErrorMarker(kind, paper, "TypeError")
        ELSE result

\* screen_paper / score_paper / translate_paper on the reply of the model
Annotate(kind, paper, reply) ==
    IF reply.exc THEN ErrorMarker(kind, paper, reply.msg)
    ELSE LET start == Find(reply.text)
             end == RFind(reply.text) + 1
         IN  IF start # -1 /\ end > start
               THEN LET parsed == JsonLoads(Slice(reply.text, start, end))
                    IN  IF parsed.ok
                          THEN Attach(kind, paper, parsed.obj)
                          \* json.loads raises, `except Exception` returns str(e)
                          ELSE ErrorMarker(kind, paper, "JSONDecodeError")
               ELSE ErrorMarker(kind, paper, "Invalid format")

\* a record of shorts_scores
Score(paper_id, total_score, v) ==
    SetKey(SetKey(SetKey(EmptyDict, "paper_id", paper_id),
                  "total_score", Num(total_score)), "verdict", Str(v))

ScoreLists == {
    << >>,
    << Score(Str("p1"), 85, "ADOPT_HIGH"), Score(Str("p1"), 70, "ADOPT_MID") >> }

\* score_map = {s.get("paper_id"): s for s in shorts_scores}
RECURSIVE ScoreMapFrom(_, _)
ScoreMapFrom(ss, m) ==
    IF ss = << >> THEN m
    ELSE ScoreMapFrom(Tail(ss),
                      SetKey(m, GetKey(Head(ss), "paper_id", NoneVal), Head(ss)))

ScoreMap(ss) == ScoreMapFrom(ss, [x \in {} |-> EmptyDict])

\* s.replace("\n", "").replace("\r", "")
StripBreaks(v) ==
    IF "cs" \in DOMAIN v
      THEN Chars(SelectSeq(v.cs, LAMBDA c : c \notin { "\n", "\r" }))
      ELSE v

SanitizedKeys == << "hook", "line1", "line2", "ending" >>

\* for key in ["hook", "line1", "line2", "ending"]: if key in result: ...
RECURSIVE Sanitize(_, _)
Sanitize(result, keys) ==
    IF keys = << >> THEN result
    ELSE LET key == Head(keys)
         IN  Sanitize(IF key \in DOMAIN result
                        THEN SetKey(result, key, StripBreaks(result[key]))
                        ELSE result,
                      Tail(keys))

\* a value of one of the four keys that has no method replace
Unsanitizable(result) ==
    \E k \in 1..Len(SanitizedKeys) :
        /\ SanitizedKeys[k] \in DOMAIN result
        /\ result[SanitizedKeys[k]].ty # "str"

\* ShortsWriter.generate_script on the reply of the model
GenerateScript(paper, shorts_score, reply) ==
    IF reply.exc THEN ErrorMarker("script", paper, reply.msg)
    ELSE LET start == Find(reply.text)
             end == RFind(reply.text) + 1
         IN  IF start # -1 /\ end > start
               THEN LET parsed == JsonLoads(Slice(reply.text, start, end))
                    IN  IF parsed.ok
                          THEN LET r1 == SetKey(parsed.obj, "paper_id", paper.id)
                                   r2 == SetKey(r1, "shorts_score",
                                            GetKey(shorts_score, "total_score", Num(0)))
                                   r3 == SetKey(r2, "verdict",
                                            GetKey(shorts_score, "verdict", Str("")))
                               IN  SetKey(r3, "best_title", paper.title)
                          ELSE ErrorMarker("script", paper, "JSONDecodeError")
               ELSE ErrorMarker("script", paper, "Invalid format")

\* CanvaGenerator.generate_text on the reply of the model
GenerateText(paper, shorts_score, reply) ==
    IF reply.exc THEN ErrorMarker("canva", paper, reply.msg)
    ELSE LET start == Find(reply.text)
             end == RFind(reply.text) + 1
         IN  IF start # -1 /\ end > start
               THEN LET parsed == JsonLoads(Slice(reply.text, start, end))
                    IN  IF ~parsed.ok
                          THEN ErrorMarker("canva", paper, "JSONDecodeError")
                        ELSE IF Unsanitizable(parsed.obj)
                          THEN ErrorMarker("canva", paper, "AttributeError")
                        ELSE SetKey(Sanitize(parsed.obj, SanitizedKeys),
                                    "paper_id", paper.id)
               ELSE ErrorMarker("canva", paper, "Invalid format")

\* the single-item annotator that the loop of a pipeline calls
AnnotatorOf(kind, paper, shorts_scores, reply) ==
    LET shorts_score == GetKey(ScoreMap(shorts_scores), paper.id, EmptyDict)
    IN  IF kind = "script" THEN GenerateScript(paper, shorts_score, reply)
        ELSE IF kind = "canva" THEN GenerateText(paper, shorts_score, reply)
        ELSE Annotate(kind, paper, reply)

PInit ==
    /\ stage \in Stages
    /\ batch \in ItemBatches
    /\ scores \in IF TakesScores(stage) THEN ScoreLists ELSE { << >> }
    /\ given = << >>
    /\ loop_i = 0
    /\ ppc = "loop"
    /\ out = << >>
    /\ answer = << >>
    /\ calls = << >>
    /\ sleeps = << >>

\* mutant: the loop stops before the last item
LoopHasItemSkipLast(k) == k < Len(batch) - 1

\* for i, paper in enumerate(papers): is there an item at index k
LoopHasItem(k) == k < Len(batch)

\* if i < len(papers) - 1
DelayFollows(k) == k < Len(batch) - 1

\* mutant: a result that is an error marker is not collected
CollectSkipErrors(rs, r) == IF "error" \in DOMAIN r THEN rs ELSE Append(rs, r)

\* mutant: the result is put in front of the list
CollectFront(rs, r) == << r >> \o rs

\* results.append(result)
Collect(rs, r) == Append(rs, r)

\* the loop body starts: the annotator builds the prompt and calls the model
BeginCall ==
    /\ ppc = "loop"
    /\ LoopHasItem(loop_i)
    /\ ppc' = "calling"
    /\ calls' = Append(calls, loop_i)
    /\ UNCHANGED << stage, batch, scores, loop_i, out, answer, given, sleeps >>
    /\ UNCHANGED notP

\* the model call returns or raises; the annotator returns its result, which
\* is appended; then the delay, or the next iteration
EndCall ==
    /\ ppc = "calling"
    /\ \E reply \in Replies :
          /\ given' = Append(given, reply)
          /\ out' = Collect(out, AnnotatorOf(stage, batch[loop_i + 1], scores, reply))
    /\ IF DelayFollows(loop_i)
         THEN /\ ppc' = "sleep"
              /\ sleeps' = Append(sleeps, loop_i)
              /\ loop_i' = loop_i
         ELSE /\ ppc' = "loop"
              /\ sleeps' = sleeps
              /\ loop_i' = loop_i + 1
    /\ UNCHANGED << stage, batch, scores, answer, calls >>
    /\ UNCHANGED notP

\* time.sleep(delay_seconds) is over
EndSleep ==
    /\ ppc = "sleep"
    /\ ppc' = "loop"
    /\ loop_i' = loop_i + 1
    /\ UNCHANGED << stage, batch, scores, out, answer, calls, given, sleeps >>
    /\ UNCHANGED notP

\* return results
PipelineReturn ==
    /\ ppc = "loop"
    /\ ~LoopHasItem(loop_i)
    /\ ppc' = "returned"
    /\ answer' = out
    /\ UNCHANGED << stage, batch, scores, loop_i, out, calls, given, sleeps >>
    /\ UNCHANGED notP

PNext ==
    \/ BeginCall
    \/ EndCall
    \/ EndSleep
    \/ PipelineReturn

\* ====================================================================
\* One call of shorts_scorer.judge_verdict
\* ====================================================================

JInit ==
    /\ total \in 0..Points(100)
    /\ verdict = "none"

\* verdict = judge_verdict(total_score)
Judge ==
    /\ verdict = "none"
    /\ verdict' = judge_verdict(total)
    /\ UNCHANGED total
    /\ UNCHANGED notJ

JNext == Judge

\* ====================================================================
\* ShortsVideoGenerator.process_papers: the loop over the candidates
\* ====================================================================

MaxCands == 2

VScores == {
    Score(Str("p1"), 90, "ADOPT_HIGH"),
    Score(Str("p2"), 70, "ADOPT_MID"),
    Score(Str("p2"), 90, "ADOPT_HIGH"),
    Score(Str("p1"), 50, "SKIP"),
    ErrorMarker("score", [id |-> Str("p2")], "Invalid format") }

VScoreLists == UNION { [1..n -> VScores] : n \in 0..MaxCands }

VReplies == {
    Raises("429 quota exceeded"),
    Text(<< Prose >>),
    Text(<< Open, Member("hook", Chars(<< "a", "\n", "b", "\r" >>)),
            Member("line1", Str("L")), Close >> ) }

\* mutant: every score result is a candidate
CandidatesUnfiltered(ss) == ss

\* [s for s in shorts_scores if s.get("verdict") in ("ADOPT_HIGH", "ADOPT_MID")]
Candidates(ss) ==
    SelectSeq(ss, LAMBDA sc : GetKey(sc, "verdict", NoneVal)
                                \in { Str("ADOPT_HIGH"), Str("ADOPT_MID") })

\* key=lambda x: x.get("total_score", 0)
SortKey(sc) == GetKey(sc, "total_score", Num(0)).n

\* sorted(candidates, key=..., reverse=True): descending and stable
RECURSIVE InsertByScore(_, _)
InsertByScore(sorted, sc) ==
    IF sorted = << >> THEN << sc >>
    ELSE IF SortKey(Head(sorted)) >= SortKey(sc)
      THEN << Head(sorted) >> \o InsertByScore(Tail(sorted), sc)
    ELSE << sc >> \o sorted

RECURSIVE SortedByScore(_, _)
SortedByScore(cs, sorted) ==
    IF cs = << >> THEN sorted
    ELSE SortedByScore(Tail(cs), InsertByScore(sorted, Head(cs)))

\* paper_map = {p.get("id"): p for p in papers}
RECURSIVE PaperMapFrom(_, _)
PaperMapFrom(ps, m) ==
    IF ps = << >> THEN m
    ELSE PaperMapFrom(Tail(ps), SetKey(m, Head(ps).id, Head(ps)))

PaperMap(ps) == PaperMapFrom(ps, [x \in {} |-> EmptyDict])

\* _create_audio_script: the texts of the four keys that are present, in
\* order (each closed with a full stop, which is not modelled)
AudioScript(result) ==
    LET present == SelectSeq(SanitizedKeys, LAMBDA k : k \in DOMAIN result)
    IN  [ty |-> "str", n |-> 0, s |-> "",
         parts |-> [k \in 1..Len(present) |-> result[present[k]]]]

\* ShortsVideoGenerator.generate_canva_text on the reply of the model
GenerateCanvaText(paper, shorts_score, reply) ==
    IF reply.exc THEN ErrorMarker("canva", paper, reply.msg)
    ELSE LET start == Find(reply.text)
             end == RFind(reply.text) + 1
         IN  IF start # -1 /\ end > start
               THEN LET parsed == JsonLoads(Slice(reply.text, start, end))
                    IN  IF ~parsed.ok
                          THEN ErrorMarker("canva", paper, "JSONDecodeError")
                        ELSE IF Unsanitizable(parsed.obj)
                          THEN ErrorMarker("canva", paper, "AttributeError")
                        ELSE LET result == SetKey(Sanitize(parsed.obj, SanitizedKeys),
                                                  "paper_id", paper.id)
                             IN  SetKey(result, "audio_script", AudioScript(result))
               ELSE ErrorMarker("canva", paper, "Invalid format")

\* the dict process_papers returns (its three counts)
Summary(rs, audio_results, video_results) ==
    [total_processed |-> Len(rs),
     audio_generated |-> Len(SelectSeq(audio_results, LAMBDA a : a.success)),
     video_generated |-> Len(SelectSeq(video_results, LAMBDA v : v.success))]

NoSummary == Summary(<< >>, << >>, << >>)

VInit ==
    /\ vpapers \in ItemBatches
    /\ vscores \in VScoreLists
    /\ vcands = SortedByScore(Candidates(vscores), << >>)
    /\ v_i = 0
    /\ vpc = "loop"
    /\ vresults = << >>
    /\ vaudio = << >>
    /\ vtrace = << >>
    /\ vmoviepy \in BOOLEAN
    /\ v_j = 0
    /\ vvideo = << >>
    /\ vmade = << >>
    /\ vrenders = << >>
    /\ vsummary = NoSummary

\* what the steps of the first loop leave alone
vrender == << vmoviepy, v_j, vvideo, vmade, vrenders, vsummary >>

\* paper_map.get(candidate.get("paper_id")) finds a paper
PaperFound(k) ==
    GetKey(vcands[k + 1], "paper_id", NoneVal) \in DOMAIN PaperMap(vpapers)

\* if not paper: continue
SkipCandidate ==
    /\ vpc = "loop"
    /\ v_i < Len(vcands)
    /\ ~PaperFound(v_i)
    /\ v_i' = v_i + 1
    /\ UNCHANGED << vpapers, vscores, vcands, vpc, vresults, vaudio, vtrace >>
    /\ UNCHANGED vrender
    /\ UNCHANGED notV

\* canva_text = self.generate_canva_text(paper, candidate) is called
BeginText ==
    /\ vpc = "loop"
    /\ v_i < Len(vcands)
    /\ PaperFound(v_i)
    /\ vpc' = "calling"
    /\ vtrace' = Append(vtrace, [ev |-> "call", i |-> v_i])
    /\ UNCHANGED << vpapers, vscores, vcands, v_i, vresults, vaudio >>
    /\ UNCHANGED vrender
    /\ UNCHANGED notV

\* mutant: audio is synthesized for every text
AudioWantedAlways(canva_text) == TRUE

\* if "error" not in canva_text
AudioWanted(canva_text) == "error" \notin DOMAIN canva_text

\* if i < len(candidates_sorted) - 1
VDelayFollows(k) == k < Len(vcands) - 1

\* the text is back and appended; audio is synthesized for a text without
\* error; then the delay, or the next iteration
EndText ==
    /\ vpc = "calling"
    /\ \E reply \in VReplies, success \in BOOLEAN :
          LET paper_id == GetKey(vcands[v_i + 1], "paper_id", NoneVal)
              canva_text == GenerateCanvaText(PaperMap(vpapers)[paper_id],
                                              vcands[v_i + 1], reply)
          IN  /\ vresults' = Append(vresults, canva_text)
              /\ vmade' = Append(vmade, [index |-> v_i + 1, text |-> canva_text])
              /\ vaudio' = IF AudioWanted(canva_text)
                             THEN Append(vaudio, [index |-> v_i + 1,
                                                  paper_id |-> paper_id,
                                                  success |-> success])
                             ELSE vaudio
    /\ IF VDelayFollows(v_i)
         THEN /\ vpc' = "sleep"
              /\ vtrace' = Append(vtrace, [ev |-> "sleep", i |-> v_i])
              /\ v_i' = v_i
         ELSE /\ vpc' = "loop"
              /\ vtrace' = vtrace
              /\ v_i' = v_i + 1
    /\ UNCHANGED << vpapers, vscores, vcands >>
    /\ UNCHANGED << vmoviepy, v_j, vvideo, vrenders, vsummary >>
    /\ UNCHANGED notV

\* time.sleep(delay_seconds) is over
VEndSleep ==
    /\ vpc = "sleep"
    /\ vpc' = "loop"
    /\ v_i' = v_i + 1
    /\ UNCHANGED << vpapers, vscores, vcands, vresults, vaudio, vtrace >>
    /\ UNCHANGED vrender
    /\ UNCHANGED notV

\* the loop is over: self._save_csv(results, csv_path) and json.dump
SaveResults ==
    /\ vpc = "loop"
    /\ v_i >= Len(vcands)
    /\ vpc' = "saved"
    /\ UNCHANGED << vpapers, vscores, vcands, v_i, vresults, vaudio, vtrace >>
    /\ UNCHANGED vrender
    /\ UNCHANGED notV

\* what the first loop and the save have set
vfirst == << vpapers, vscores, vcands, v_i, vresults, vaudio, vtrace,
             vmoviepy, vmade >>

\* the rendering loop has an item left: enable_moviepy and MOVIEPY_AVAILABLE,
\* and audio_results is not exhausted
HasAudioItem == vmoviepy /\ v_j < Len(vaudio)

\* results[idx - 1] if idx <= len(results) else {}
TextAt(rs, idx) == IF idx <= Len(rs) THEN rs[idx] ELSE EmptyDict

\* the texts dict handed to render_video
Texts(canva_text) ==
    [k \in { "hook", "line1", "line2", "ending" } |->
        GetKey(canva_text, k, Str(""))]

\* mutant: an item whose synthesis failed is rendered as well
RenderWantedAnyAudio(item, canva_text) == "error" \notin DOMAIN canva_text

\* neither `if not item.get("success"): continue` nor
\* `if "error" in canva_text: continue` is taken
RenderWanted(item, canva_text) ==
    item.success /\ "error" \notin DOMAIN canva_text

\* the rendering loop passes an item without rendering it
SkipItem ==
    /\ vpc = "saved"
    /\ HasAudioItem
    /\ ~RenderWanted(vaudio[v_j + 1], TextAt(vresults, vaudio[v_j + 1].index))
    /\ v_j' = v_j + 1
    /\ UNCHANGED << vpc, vvideo, vrenders, vsummary >>
    /\ UNCHANGED vfirst
    /\ UNCHANGED notV

\* renderer.render_video(texts, audio_path, video_path) returns the path of
\* the video, or None when rendering failed
RenderVideo ==
    /\ vpc = "saved"
    /\ HasAudioItem
    /\ LET item == vaudio[v_j + 1]
           idx == item.index
           canva_text == TextAt(vresults, idx)
       IN  /\ RenderWanted(item, canva_text)
           /\ \E rendered \in BOOLEAN :
                 vvideo' = Append(vvideo, [index |-> idx, success |-> rendered])
           /\ vrenders' = Append(vrenders, [index |-> idx,
                                            texts |-> Texts(canva_text),
                                            from |-> canva_text,
                                            audio |-> item])
    /\ v_j' = v_j + 1
    /\ UNCHANGED << vpc, vsummary >>
    /\ UNCHANGED vfirst
    /\ UNCHANGED notV

\* return {"total_processed": ..., "audio_generated": ..., "video_generated": ...}
ReturnSummary ==
    /\ vpc = "saved"
    /\ ~HasAudioItem
    /\ vsummary' = Summary(vresults, vaudio, vvideo)
    /\ vpc' = "returned"
    /\ UNCHANGED << v_j, vvideo, vrenders >>
    /\ UNCHANGED vfirst
    /\ UNCHANGED notV

VNext ==
    \/ SkipCandidate
    \/ BeginText
    \/ EndText
    \/ VEndSleep
    \/ SaveResults
    \/ SkipItem
    \/ RenderVideo
    \/ ReturnSummary

\* ====================================================================
\* Screener.select_top_papers
\* ====================================================================

MaxResults == 3

\* a result of screen_paper with a payload
Screened(paper_id, total_score) ==
    SetKey(SetKey(EmptyDict, "paper_id", paper_id), "total_score", total_score)

SelectResults == {
    Screened(Str("p1"), Num(90)),
    Screened(Str("p2"), Num(70)),
    Screened(Str("p1"), Num(70)),
    Screened(Str("p3"), Num(85)),
    Screened(Str("p2"), Num(60)),
    Screened(Str("p1"), Str("high")),
    ErrorMarker("screen", [id |-> Str("p2")], "429 quota exceeded") }

SelectPapers == {
    [id |-> Str("p1"), title |-> Str("T")],
    [id |-> Str("p1"), title |-> Str("U")],
    [id |-> Str("p2"), title |-> Str("T")] }

TopNs == { 1, 2 }

MinScores == { 65 }

SInit ==
    /\ screening_results \in UNION { [1..n -> SelectResults] : n \in 0..MaxResults }
    /\ s_papers \in UNION { [1..n -> SelectPapers] : n \in 0..MaxItems }
    /\ top_n \in TopNs
    /\ min_score \in MinScores
    /\ spc = "call"
    /\ sorted_results = << >>
    /\ joined = << >>
    /\ selected = << >>

\* r.get("total_score", 0)
TotalScore(r) == GetKey(r, "total_score", Num(0))

\* `>=` between a str and a number raises TypeError; the comparison is
\* reached for the results without an error key only
ComparisonRaises(rs) ==
    \E i \in 1..Len(rs) :
        "error" \notin DOMAIN rs[i] /\ TotalScore(rs[i]).ty # "num"

\* mutant: the threshold is not applied
IsValidAnyScore(r, least) == "error" \notin DOMAIN r

\* "error" not in r and r.get("total_score", 0) >= min_score
IsValid(r, least) == "error" \notin DOMAIN r /\ TotalScore(r).n >= least

Positions(rs) == [i \in 1..Len(rs) |-> i]

\* valid_results
ValidPositions(rs, least) ==
    SelectSeq(Positions(rs), LAMBDA i : IsValid(rs[i], least))

\* mutant: a result goes in front of the results of equal score
InsertPositionInFront(sorted, i, rs) ==
    LET RECURSIVE Ins(_)
        Ins(sq) ==
            IF sq = << >> THEN << i >>
            ELSE IF TotalScore(rs[Head(sq)]).n > TotalScore(rs[i]).n
              THEN << Head(sq) >> \o Ins(Tail(sq))
            ELSE << i >> \o sq
    IN  Ins(sorted)

\* sorted(..., key=total_score, reverse=True) keeps the results of equal
\* score in their original order: a result goes behind those of equal score
InsertPosition(sorted, i, rs) ==
    LET RECURSIVE Ins(_)
        Ins(sq) ==
            IF sq = << >> THEN << i >>
            ELSE IF TotalScore(rs[Head(sq)]).n >= TotalScore(rs[i]).n
              THEN << Head(sq) >> \o Ins(Tail(sq))
            ELSE << i >> \o sq
    IN  Ins(sorted)

RECURSIVE SortedPositions(_, _, _)
SortedPositions(ps, sorted, rs) ==
    IF ps = << >> THEN sorted
    ELSE SortedPositions(Tail(ps), InsertPosition(sorted, Head(ps), rs), rs)

\* mutant: nothing is cut off
TruncateNothing(sq, n) == sq

\* sq[:n] for n >= 0
Truncate(sq, n) == SubSeq(sq, 1, IF n < Len(sq) THEN n ELSE Len(sq))

\* mutant: the join stops at the first result without a paper
JoinableUntilMissing(ps, rs, paper_map) ==
    LET RECURSIVE Upto(_)
        Upto(sq) ==
            IF sq = << >> THEN << >>
            ELSE IF GetKey(rs[Head(sq)], "paper_id", NoneVal) \in DOMAIN paper_map
              THEN << Head(sq) >> \o Upto(Tail(sq))
            ELSE << >>
    IN  Upto(ps)

\* if paper_id in paper_map
Joinable(ps, rs, paper_map) ==
    SelectSeq(ps, LAMBDA i : GetKey(rs[i], "paper_id", NoneVal) \in DOMAIN paper_map)

\* {**paper_map[paper_id], "screening": result}
Combined(paper, result) == SetKey(paper, "screening", result)

\* mutant: paper["screening"] = result, the paper itself is joined
PapersJoinedInPlace(ps, rs, found) ==
    [i \in 1..Len(ps) |->
        IF \E k \in 1..Len(found) : GetKey(rs[found[k]], "paper_id", NoneVal) = ps[i].id
          THEN SetKey(ps[i], "screening",
                      rs[CHOOSE f \in { found[k] : k \in 1..Len(found) } :
                            GetKey(rs[f], "paper_id", NoneVal) = ps[i].id])
          ELSE ps[i]]

\* the papers of the batch after the join: {**paper, "screening": result}
\* builds a new dict and nothing is assigned to a paper
PapersAfterJoin(ps, rs, found) == ps

\* select_top_papers returns
SelectTopPapers ==
    /\ spc = "call"
    /\ ~ComparisonRaises(screening_results)
    /\ LET paper_map == PaperMap(s_papers)
           sorted == Truncate(SortedPositions(ValidPositions(screening_results, min_score),
                                             << >>, screening_results), top_n)
           found == Joinable(sorted, screening_results, paper_map)
       IN  /\ sorted_results' = sorted
           /\ joined' = found
           /\ selected' = [k \in 1..Len(found) |->
                  Combined(paper_map[GetKey(screening_results[found[k]], "paper_id", NoneVal)],
                           screening_results[found[k]])]
           /\ s_papers' = PapersAfterJoin(s_papers, screening_results, found)
    /\ spc' = "returned"
    /\ UNCHANGED << screening_results, top_n, min_score >>
    /\ UNCHANGED notS

\* the comparison with min_score raises TypeError out of select_top_papers
SelectTopPapersRaises ==
    /\ spc = "call"
    /\ ComparisonRaises(screening_results)
    /\ spc' = "raised"
    /\ UNCHANGED << screening_results, s_papers, top_n, min_score,
                    sorted_results, joined, selected >>
    /\ UNCHANGED notS

SNext ==
    \/ SelectTopPapers
    \/ SelectTopPapersRaises

\* ====================================================================
\* The formatting steps: CanvaGenerator.save_csv, main's save_csv of the
\* translated results, generate_daily_summary
\* ====================================================================

\* a JSON array
ListVal(xs) == [ty |-> "list", n |-> 0, s |-> "", items |-> xs]

\* " / ".join(str(x) for x in v)
JoinSlash(v) == [ty |-> "str", n |-> 0, s |-> "", sep |-> " / ", parts |-> v.items]

Translated(paper_id) ==
    [x \in { "paper_id", "title_ja", "youtube_hook", "summary_3lines", "original_title" } |->
        CASE x = "paper_id" -> paper_id
          [] x = "title_ja" -> Str("J")
          [] x = "youtube_hook" -> Str("H")
          [] x = "summary_3lines" -> ListVal(<< Str("a"), Str("b") >>)
          [] OTHER -> Str("T")]

CanvaText(paper_id) ==
    [x \in { "paper_id", "hook", "line1" } |->
        CASE x = "paper_id" -> paper_id
          [] x = "hook" -> Str("h")
          [] OTHER -> Str("l")]

ExportResults == {
    Translated(Str("p1")),
    CanvaText(Str("p2")),
    ErrorMarker("translate", [id |-> Str("p2")], "Invalid format"),
    ErrorMarker("canva", [id |-> Str("p1")], "429 quota exceeded") }

EInit ==
    /\ e_results \in UNION { [1..n -> ExportResults] : n \in 0..MaxResults }
    /\ epc = "call"
    /\ canva_rows = << >>
    /\ csv_rows = << >>
    /\ summary = << >>

CanvaColumns == << "hook", "line1", "line2", "ending" >>

TranslatedColumns ==
    << "paper_id", "title_ja", "youtube_hook", "summary_3lines", "keywords",
       "original_title" >>

\* csv.DictWriter(fieldnames=columns, extrasaction="ignore").writerow(row):
\* one cell per column, empty where the row has no such key; src is the
\* position of the row in the list it was written from
CsvRow(row, columns, src) ==
    [src |-> src,
     cells |-> [c \in 1..Len(columns) |-> GetKey(row, columns[c], Str(""))]]

\* flat_row of main's save_csv: a list becomes one string
FlatRow(row) ==
    [k \in DOMAIN row |-> IF row[k].ty = "list" THEN JoinSlash(row[k]) ELSE row[k]]

\* CanvaGenerator.save_csv: valid_texts = [t for t in texts if "error" not in t]
CanvaSaveCsv(texts) ==
    LET valid_texts == SelectSeq(Positions(texts),
                                 LAMBDA i : "error" \notin DOMAIN texts[i])
    IN  [k \in 1..Len(valid_texts) |->
            CsvRow(texts[valid_texts[k]], CanvaColumns, valid_texts[k])]

\* main's save_csv(data, path, columns): a row for every element of data
SaveCsv(data, columns) ==
    [k \in 1..Len(data) |-> CsvRow(FlatRow(data[k]), columns, k)]

SummaryTop == 10

\* generate_daily_summary: an entry for each of translated[:10]
DailySummary(translated) ==
    LET top == Truncate(Positions(translated), SummaryTop)
    IN  [k \in 1..Len(top) |->
            LET t == translated[top[k]]
            IN  [src |-> top[k],
                 title |-> GetKey(t, "title_ja", GetKey(t, "original_title", Str("N/A"))),
                 id |-> GetKey(t, "paper_id", NoneVal),
                 hook |-> GetKey(t, "youtube_hook", Str("")),
                 summary |-> GetKey(t, "summary_3lines", ListVal(<< >>))]]

\* the three formatting steps run over the list
WriteOutputs ==
    /\ epc = "call"
    /\ canva_rows' = CanvaSaveCsv(e_results)
    /\ csv_rows' = SaveCsv(e_results, TranslatedColumns)
    /\ summary' = DailySummary(e_results)
    /\ epc' = "written"
    /\ UNCHANGED e_results
    /\ UNCHANGED notE

ENext == WriteOutputs

\* ====================================================================
\* main: the order of the phases of a run
\* ====================================================================

MInit ==
    /\ api_key \in BOOLEAN
    /\ mpc = "start"
    /\ fetched = << >>
    /\ work = << >>
    /\ surfaced = 0

\* one entry of per-item work for each paper of ps
WorkOn(what, ps) == [k \in 1..Len(ps) |-> [what |-> what, id |-> ps[k].id]]

\* Phase 1: get_papers_by_category, then the metadata files
FetchPapers ==
    /\ mpc = "start"
    /\ \E ps \in Batches :
          /\ fetched' = ps
          /\ work' = work \o WorkOn("acquire", ps)
    /\ mpc' = "fetched"
    /\ UNCHANGED << api_key, surfaced >>
    /\ UNCHANGED notM

\* Phase 1.5: download_papers(papers, papers_dir, max_concurrent=5)
DownloadPapers ==
    /\ mpc = "fetched"
    /\ work' = work \o WorkOn("download", fetched)
    /\ mpc' = "downloaded"
    /\ UNCHANGED << api_key, fetched, surfaced >>
    /\ UNCHANGED notM

\* if not gemini_api_key: logger.warning(...); return
KeyMissing ==
    /\ mpc = "downloaded"
    /\ ~api_key
    /\ surfaced' = surfaced + 1
    /\ mpc' = "skipped"
    /\ UNCHANGED << api_key, fetched, work >>
    /\ UNCHANGED notM

\* Phase 2: screener.screen_papers(papers), the merged CSV, select_top_papers
ScreenPapers ==
    /\ mpc = "downloaded"
    /\ api_key
    /\ work' = work \o WorkOn("annotate", fetched)
    /\ mpc' = "screened"
    /\ UNCHANGED << api_key, fetched, surfaced >>
    /\ UNCHANGED notM

\* Phase 3: translator.translate_papers(top_papers) for the selected papers
\* (some of the fetched ones, in some order), then the files and the summary
TranslatePapers ==
    /\ mpc = "screened"
    /\ \E n \in 0..Len(fetched) :
          work' = work \o WorkOn("annotate", SubSeq(fetched, 1, n))
    /\ mpc' = "done"
    /\ UNCHANGED << api_key, fetched, surfaced >>
    /\ UNCHANGED notM

MNext ==
    \/ FetchPapers
    \/ DownloadPapers
    \/ KeyMissing
    \/ ScreenPapers
    \/ TranslatePapers

\* ====================================================================
\* ShortsScorer.filter_by_verdict
\* ====================================================================

MaxScored == 3

\* What a list of score results can hold: the results of score_paper for a
\* high, a middling and a low score, its error return, its result for a
\* payload that has an "error" member of its own, and a dict without a verdict.
FilterScores == {
    Score(Str("p1"), 90, "ADOPT_HIGH"),
    Score(Str("p2"), 70, "ADOPT_MID"),
    Score(Str("p1"), 60, "SKIP"),
    ErrorMarker("score", [id |-> Str("p2")], "429 quota exceeded"),
    SetKey(Score(Str("p1"), 70, "ADOPT_MID"), "error", Str("x")),
    Screened(Str("p2"), Num(90)) }

FInit ==
    /\ f_scores \in UNION { [1..n -> FilterScores] : n \in 0..MaxScored }
    /\ include_mid \in BOOLEAN
    /\ fpc = "call"
    /\ filtered = << >>

\* mutant: ADOPT_MID passes whatever include_mid says
ValidVerdictsWithMid(mid) == { Str("ADOPT_HIGH"), Str("ADOPT_MID") }

\* valid_verdicts
ValidVerdicts(mid) ==
    IF mid THEN { Str("ADOPT_HIGH"), Str("ADOPT_MID") }
    ELSE { Str("ADOPT_HIGH") }

\* [s for s in scores if s.get("verdict") in valid_verdicts]
RECURSIVE Comprehension(_, _)
Comprehension(ss, valid_verdicts) ==
    IF ss = << >> THEN << >>
    ELSE IF GetKey(Head(ss), "verdict", NoneVal) \in valid_verdicts
      THEN << Head(ss) >> \o Comprehension(Tail(ss), valid_verdicts)
    ELSE Comprehension(Tail(ss), valid_verdicts)

FilterByVerdict ==
    /\ fpc = "call"
    /\ filtered' = Comprehension(f_scores, ValidVerdicts(include_mid))
    /\ fpc' = "returned"
    /\ UNCHANGED << f_scores, include_mid >>
    /\ UNCHANGED notF

FNext == FilterByVerdict

\* ====================================================================
\* The specifications
\* ====================================================================

vars == << dvars, pvars, jvars, vvars, svars, evars, mvars, fvars >>

\* select_top_papers is not called
SIdle ==
    /\ screening_results = << >>
    /\ s_papers = << >>
    /\ top_n = 1
    /\ min_score = 65
    /\ spc = "returned"
    /\ sorted_results = << >>
    /\ joined = << >>
    /\ selected = << >>

\* nothing is formatted
EIdle ==
    /\ e_results = << >>
    /\ epc = "written"
    /\ canva_rows = << >>
    /\ csv_rows = << >>
    /\ summary = << >>

\* main does not run
MIdle ==
    /\ api_key = TRUE
    /\ mpc = "done"
    /\ fetched = << >>
    /\ work = << >>
    /\ surfaced = 0

\* filter_by_verdict is not called
FIdle ==
    /\ f_scores = << >>
    /\ include_mid = TRUE
    /\ fpc = "returned"
    /\ filtered = << >>

\* the components that take no part in the specifications below
RestIdle == SIdle /\ EIdle /\ MIdle /\ FIdle

\* no judge_verdict call is made
JIdle ==
    /\ total = 0
    /\ verdict = "none"

\* process_papers does not run
VIdle ==
    /\ vpapers = << >>
    /\ vscores = << >>
    /\ vcands = << >>
    /\ v_i = 0
    /\ vpc = "returned"
    /\ vresults = << >>
    /\ vaudio = << >>
    /\ vtrace = << >>
    /\ vmoviepy = FALSE
    /\ v_j = 0
    /\ vvideo = << >>
    /\ vmade = << >>
    /\ vrenders = << >>
    /\ vsummary = NoSummary

\* the acquisition stage alone: no pipeline runs
PIdle ==
    /\ stage = "screen"
    /\ batch = << >>
    /\ scores = << >>
    /\ given = << >>
    /\ loop_i = 0
    /\ ppc = "returned"
    /\ out = << >>
    /\ answer = << >>
    /\ calls = << >>
    /\ sleeps = << >>

\* a pipeline alone: the acquisition has nothing to do
DIdle ==
    /\ papers = << >>
    /\ max_concurrent = 1
    /\ run = 1
    /\ how = "fresh"
    /\ phase = "returned"
    /\ pc = << >>
    /\ attempt = << >>
    /\ semaphore = 1
    /\ results = EmptyMap
    /\ returned = EmptyMap
    /\ disk = [p \in Paths |-> NoFile]
    /\ diskAtStart = [p \in Paths |-> NoFile]
    /\ ret = << >>
    /\ existed = << >>
    /\ requests = << >>
    /\ failures = << >>
    /\ waits = << >>
    /\ fileWrites = << >>
    /\ keyWrites = [k \in Ids |-> 0]

Init == DInit /\ PIdle /\ JIdle /\ VIdle /\ RestIdle

Next == DNext

Spec == Init /\ [][Next]_vars

\* One call of download_papers_batch on an empty directory, run to its end by
\* the event loop.
NextLive ==
    \/ \E i \in Tasks : Start(i)
    \/ \E i \in Tasks : GetSucceeds(i)
    \/ \E i \in Tasks : GetFails(i)
    \/ \E i \in Tasks : Wake(i)
    \/ BatchReturn

\* The event loop goes on as long as a step is possible: it runs a task that
\* is ready (one that can take a free slot, or the as_completed loop when all
\* tasks are done), and every GET ends, with a response or an exception, as
\* does every asyncio.sleep (the proviso of the termination claim). No step is
\* promised to a particular task.
Fairness == WF_vars(NextLive)

SpecLive == Init /\ [][NextLive]_vars /\ Fairness

InitPipeline == PInit /\ DIdle /\ JIdle /\ VIdle /\ RestIdle

NextPipeline == PNext

SpecPipeline == InitPipeline /\ [][NextPipeline]_vars

InitVerdict == JInit /\ DIdle /\ PIdle /\ VIdle /\ RestIdle

NextVerdict == JNext

SpecVerdict == InitVerdict /\ [][NextVerdict]_vars

InitVideo == VInit /\ DIdle /\ PIdle /\ JIdle /\ RestIdle

NextVideo == VNext

SpecVideo == InitVideo /\ [][NextVideo]_vars

OthersIdle == DIdle /\ PIdle /\ JIdle /\ VIdle /\ FIdle

InitSelect == SInit /\ OthersIdle /\ EIdle /\ MIdle

NextSelect == SNext

SpecSelect == InitSelect /\ [][NextSelect]_vars

\* the stages that are handed the papers: an annotation pipeline, or
\* select_top_papers
InitStages ==
    \/ PInit /\ DIdle /\ JIdle /\ VIdle /\ RestIdle
    \/ SInit /\ OthersIdle /\ EIdle /\ MIdle

NextStages ==
    \/ BeginCall
    \/ EndCall
    \/ EndSleep
    \/ PipelineReturn
    \/ SelectTopPapers
    \/ SelectTopPapersRaises

SpecStages == InitStages /\ [][NextStages]_vars

InitExport == EInit /\ OthersIdle /\ SIdle /\ MIdle

NextExport == ENext

SpecExport == InitExport /\ [][NextExport]_vars

InitMain == MInit /\ OthersIdle /\ SIdle /\ EIdle

NextMain == MNext

SpecMain == InitMain /\ [][NextMain]_vars

InitFilter ==
    FInit /\ DIdle /\ PIdle /\ JIdle /\ VIdle /\ SIdle /\ EIdle /\ MIdle

NextFilter == FNext

SpecFilter == InitFilter /\ [][NextFilter]_vars

\* ====================================================================
\* Properties of the acquisition stage (checked under Spec)
\* ====================================================================

\* the tasks inside download_pdf_async: awaiting a GET or a backoff sleep
InFlight == { i \in Tasks : pc[i] \in { "get", "sleep" } }

\* C1: at every moment of a run at most max_concurrent items are in flight
\* (awaiting their GET or their backoff sleep), and the semaphore counts the
\* free slots.
C1_AtMostCapInFlight ==
    /\ Cardinality(InFlight) <= max_concurrent
    /\ phase = "running" => semaphore = max_concurrent - Cardinality(InFlight)

\* the cap is reached by an item in its backoff wait while another one waits
C1_Witness ==
    /\ Cardinality(InFlight) = max_concurrent
    /\ \E i \in Tasks : pc[i] = "sleep"
    /\ \E i \in Tasks : pc[i] = "pending"

\* the identifiers of the batch are pairwise distinct
DistinctIds ==
    \A i, j \in Tasks : i # j => papers[i].id # papers[j].id

\* C2 as claimed: the returned mapping has exactly N keys for every batch of
\* N items.
C2_ExactlyNKeys ==
    phase = "returned" => Cardinality(DOMAIN returned) = Len(papers)

\* C2 as amended: the keys of the returned mapping are exactly the identifiers
\* of the items, whatever failed; they are N when the identifiers are
\* pairwise distinct.
C2_OneKeyPerIdentifier ==
    phase = "returned" =>
        /\ DOMAIN returned = { papers[i].id : i \in Tasks }
        /\ DistinctIds => Cardinality(DOMAIN returned) = Len(papers)

\* a batch of two distinct items, one exhausted and one downloaded, returned
C2_Witness ==
    /\ phase = "returned"
    /\ Len(papers) = 2
    /\ DistinctIds
    /\ \E i \in Tasks : failures[i] = MAX_RETRIES /\ ret[i] = "fail"
    /\ \E i \in Tasks : fileWrites[i] = 1 /\ ret[i] = "ok"

\* C3 as claimed: a call that finds its destination present returns success
\* without a request or a write, and a second run over the same batch issues
\* no request for a destination present after the first run and leaves the
\* disk as it was.
C3_ExistingIsSuccessAndDiskUnchanged ==
    /\ \A i \in Tasks :
          (pc[i] # "pending" /\ existed[i]) =>
              ret[i] = "ok" /\ requests[i] = 0 /\ fileWrites[i] = 0
    /\ how = "rerun" =>
          /\ disk = diskAtStart
          /\ \A i \in Tasks :
                diskAtStart[OutputPath(papers[i])].exists => requests[i] = 0

\* C3 as amended: a call for an item with a locator that finds its destination
\* present returns success without a request or a write (without a locator it
\* returns failure, also without a request or a write); a run issues no
\* request for a destination present when it started and leaves every such
\* destination as it was.
C3_PresentDestinationsSkipped ==
    /\ \A i \in Tasks :
          (pc[i] # "pending" /\ existed[i]) =>
              /\ requests[i] = 0
              /\ fileWrites[i] = 0
              /\ ret[i] = IF papers[i].pdf_url THEN "ok" ELSE "fail"
    /\ \A p \in Paths :
          diskAtStart[p].exists =>
              /\ disk[p] = diskAtStart[p]
              /\ \A i \in Tasks :
                    OutputPath(papers[i]) = p =>
                        requests[i] = 0 /\ fileWrites[i] = 0

\* a second run has returned: it skipped a destination the first run left and
\* downloaded one the first run had failed to fetch
C3_Witness ==
    /\ how = "rerun"
    /\ phase = "returned"
    /\ \E i \in Tasks : existed[i] /\ ret[i] = "ok" /\ requests[i] = 0
    /\ \E i \in Tasks : ~existed[i] /\ fileWrites[i] = 1

\* C4: a fetch whose every attempt fails, for an item with a locator and no
\* destination, is attempted exactly MAX_RETRIES times and then returns
\* failure; no fetch is attempted more often.
C4_AlwaysFailingAttemptedMaxRetries ==
    \A i \in Tasks :
        /\ requests[i] <= MAX_RETRIES
        /\ (/\ pc[i] = "done"
            /\ papers[i].pdf_url
            /\ ~existed[i]
            /\ failures[i] = requests[i])
               => requests[i] = MAX_RETRIES /\ ret[i] = "fail"

\* an item has failed MAX_RETRIES times and resolved to failure
C4_Witness ==
    \E i \in Tasks :
        pc[i] = "done" /\ failures[i] = MAX_RETRIES /\ ret[i] = "fail"

\* BACKOFF_FACTOR ** i for i = 0, 1, 2
ExpectedWaits == << 1, 2, 4 >>

\* C5: the wait after failed attempt number i is BACKOFF_FACTOR ** i seconds
\* (1, 2, 4); one wait follows each failed attempt, and all the waits of the
\* earlier attempts are over when an attempt is made.
C5_BackoffWaits ==
    \A i \in Tasks :
        /\ Len(waits[i]) = failures[i]
        /\ \A k \in 1..Len(waits[i]) :
              k <= Len(ExpectedWaits) /\ waits[i][k] = ExpectedWaits[k]
        /\ pc[i] = "get" => Len(waits[i]) = requests[i] - 1
        /\ pc[i] = "sleep" => Len(waits[i]) = requests[i]

\* an item has waited 1, 2 and 4 seconds
C5_Witness == \E i \in Tasks : waits[i] = << 1, 2, 4 >>

\* C6: after a kill, every item the next run reports as success has its whole
\* payload at its destination.
C6_NoPartialFileReportedComplete ==
    (how = "killed" /\ phase = "returned") =>
        \A i \in Tasks :
            returned[PaperKey(papers[i])] =>
                disk[OutputPath(papers[i])].whole

\* what the fetch of item j amounts to: no locator, a destination that was
\* there, a download, or MAX_RETRIES failures
OwnOutcome(j) ==
    IF ~papers[j].pdf_url THEN "fail"
    ELSE IF existed[j] THEN "ok"
    ELSE IF fileWrites[j] = 1 THEN "ok"
    ELSE "fail"

\* C7: the step in which an item exhausts its retries stores False under its
\* identifier, raises nothing, and leaves every other task where it was; the
\* batch never ends with an exception, and when it returns every item has the
\* outcome of its own fetch, every item with a locator and no destination
\* having been attempted.
C7_ExhaustionIsolated ==
    [][ /\ \A i \in Tasks :
              (pc[i] = "sleep" /\ pc'[i] = "done") =>
                  /\ ret'[i] = "fail"
                  /\ papers[i].id \in DOMAIN results'
                  /\ results'[papers[i].id] = FALSE
                  /\ phase' = "running"
                  /\ \A j \in Tasks \ {i} :
                        pc'[j] = pc[j] /\ ret'[j] = ret[j]
        /\ phase' # "raised"
        /\ phase' = "returned" =>
              \A j \in Tasks :
                  /\ ret'[j] = OwnOutcome(j)'
                  /\ (papers[j].pdf_url /\ ~existed'[j]) => requests'[j] >= 1
      ]_vars

\* a batch has returned in which one item exhausted its retries and another
\* one was downloaded
C7_Witness ==
    /\ phase = "returned"
    /\ \E i, j \in Tasks :
          /\ failures[i] = MAX_RETRIES
          /\ ret[i] = "fail"
          /\ returned[papers[i].id] = FALSE
          /\ fileWrites[j] = 1
          /\ ret[j] = "ok"

\* C8: when download_papers_batch returns, every item has resolved to success
\* or failure, none is pending or in flight, and the mapping it returns is the
\* complete one; nothing is returned before.
C8_ReturnsAfterAllResolved ==
    /\ phase = "returned" =>
          /\ \A i \in Tasks : pc[i] = "done" /\ ret[i] \in { "ok", "fail" }
          /\ InFlight = {}
          /\ semaphore = max_concurrent
          /\ returned = results
          /\ \A i \in Tasks : papers[i].id \in DOMAIN returned
    /\ phase # "returned" => returned = EmptyMap

\* a batch of two has returned after an exhausted item and a download
C8_Witness ==
    /\ phase = "returned"
    /\ Len(papers) = 2
    /\ \E i \in Tasks : failures[i] = MAX_RETRIES
    /\ \E i \in Tasks : fileWrites[i] = 1

\* no two items of the batch share an identifier or a destination file
DistinctTargets ==
    \A i, j \in Tasks :
        i # j => /\ papers[i].id # papers[j].id
                 /\ OutputPath(papers[i]) # OutputPath(papers[j])

C10_OrderPreserved ==
    /\ Len(out) <= Len(batch)
    /\ \A k \in 1..Len(out) : out[k]["paper_id"] = batch[k].id
    /\ ppc = "returned" =>
          /\ Len(answer) = Len(batch)
          /\ \A k \in 1..Len(batch) : answer[k]["paper_id"] = batch[k].id

\* a pipeline has returned for two items with different identifiers, the
\* first result an error marker and the second a payload
C10_Witness ==
    /\ ppc = "returned"
    /\ Len(batch) = 2
    /\ batch[1].id # batch[2].id
    /\ "error" \in DOMAIN answer[1]
    /\ "error" \notin DOMAIN answer[2]

\* ====================================================================
\* Properties of the annotators and their loops (checked under SpecPipeline)
\* ====================================================================

\* the reply has a "{" followed somewhere by a "}"
HasBracePair(reply) ==
    /\ Find(reply.text) # -1
    /\ RFind(reply.text) + 1 > Find(reply.text)

\* the object between the first "{" and the last "}" of the reply
PayloadOf(reply) ==
    JsonLoads(Slice(reply.text, Find(reply.text), RFind(reply.text) + 1))

\* the call returned a text that holds one object the stage can use
Usable(kind, reply) ==
    /\ ~reply.exc
    /\ HasBracePair(reply)
    /\ PayloadOf(reply).ok
    /\ kind = "score" => GetKey(PayloadOf(reply).obj, "total_score", Num(0)).ty = "num"
    /\ kind = "canva" => ~Unsanitizable(PayloadOf(reply).obj)

\* C11: when the model call throws for any subset of the items, the pipeline
\* still returns one result per item: the result of a throwing item is an
\* error marker, the result of an item whose call gave a usable payload
\* without an error member has no error key, and every result depends on its
\* own item and its own reply only.
C11_FailuresIsolated ==
    ppc = "returned" =>
        /\ Len(answer) = Len(batch)
        /\ Len(given) = Len(batch)
        /\ \A k \in 1..Len(batch) :
              /\ given[k].exc => "error" \in DOMAIN answer[k]
              /\ (Usable(stage, given[k]) /\ "error" \notin DOMAIN PayloadOf(given[k]).obj)
                    => "error" \notin DOMAIN answer[k]
              /\ answer[k] = AnnotatorOf(stage, batch[k], scores, given[k])

C11_Witness ==
    /\ ppc = "returned"
    /\ Len(batch) = 2
    /\ given[1].exc
    /\ "error" \in DOMAIN answer[1]
    /\ Usable(stage, given[2])
    /\ "error" \notin DOMAIN answer[2]

\* the call returned a text without a brace pair, or one whose brace
\* substring json.loads rejects
Malformed(reply) ==
    /\ ~reply.exc
    /\ ~HasBracePair(reply) \/ ~PayloadOf(reply).ok

\* C12: a reply with no brace pair, or whose brace substring fails to parse,
\* gives an error marker whose diagnostic is "Invalid format".
C12_MalformedIsInvalidFormat ==
    \A k \in 1..Len(out) :
        Malformed(given[k]) =>
            /\ "error" \in DOMAIN out[k]
            /\ out[k]["error"] = Str("Invalid format")

\* C13: an exception thrown by the model call is caught inside the
\* single-item annotator: the call still yields a result, which is an error
\* marker for the item carrying the text of that exception, and the loop
\* goes on.
C13_ExceptionBecomesMarker ==
    /\ Len(out) = Len(given)
    /\ ppc # "calling" => Len(out) = Len(calls)
    /\ \A k \in 1..Len(out) :
          given[k].exc =>
              /\ DOMAIN out[k] = { "paper_id", "error" } \cup
                                  (IF stage = "score" THEN { "verdict" } ELSE {})
              /\ out[k]["error"] = Str(given[k].msg)
              /\ out[k]["paper_id"] = batch[k].id

C13_Witness ==
    /\ Len(out) = 2
    /\ given[1].exc
    /\ given[2].exc
    /\ out[1]["error"] = Str(given[1].msg)
    /\ out[2]["error"] = Str(given[2].msg)
    /\ given[1].msg # given[2].msg

\* the keys of an error return: the item, the diagnostic, and in score_paper
\* the verdict
MarkerKeys(kind) ==
    { "paper_id", "error" } \cup (IF kind = "score" THEN { "verdict" } ELSE {})

\* C14: every result is either a payload without an error key or an error
\* marker without payload fields, never both: a result with an error key has
\* the keys of an error return only.
C14_PayloadXorMarker ==
    \A k \in 1..Len(out) :
        "error" \in DOMAIN out[k] => DOMAIN out[k] \subseteq MarkerKeys(stage)

\* C15: the result of the annotator for an item and a reply, whatever the
\* reply, has the key paper_id, and its value is the identifier of that
\* item, also when the payload of the reply has a paper_id of its own.
C15_ResultCarriesItemId ==
    \A k \in 1..Len(out) :
        LET result == AnnotatorOf(stage, batch[k], scores, given[k])
        IN  /\ out[k] = result
            /\ "paper_id" \in DOMAIN result
            /\ result["paper_id"] = batch[k].id

\* a payload that names another paper was returned for item p1
C15_Witness ==
    /\ Len(out) >= 1
    /\ Usable(stage, given[1])
    /\ "paper_id" \in DOMAIN PayloadOf(given[1]).obj
    /\ PayloadOf(given[1]).obj["paper_id"] = Str("zz")
    /\ batch[1].id = Str("p1")
    /\ out[1]["paper_id"] = Str("p1")
    /\ "total_score" \in DOMAIN out[1]

\* C16: the model is called once per item, in input order, one call at a
\* time: the calls started so far are those of the indices 0, 1, 2, ... in
\* that order, a call is in flight only while the loop waits for it, every
\* earlier call has returned its result by then, and at return every item
\* has had its call.
C16_OneCallPerItemInOrder ==
    /\ \A k \in 1..Len(calls) : calls[k] = k - 1
    /\ Len(calls) <= Len(batch)
    /\ Len(calls) - Len(out) = (IF ppc = "calling" THEN 1 ELSE 0)
    /\ ppc = "returned" => Len(calls) = Len(batch)

C16_Witness ==
    /\ ppc = "returned"
    /\ Len(batch) = 2
    /\ calls = << 0, 1 >>
    /\ given[1].exc

\* ====================================================================
\* Properties of process_papers (checked under SpecVideo)
\* ====================================================================

VCalls == SelectSeq(vtrace, LAMBDA e : e.ev = "call")

VSleeps == SelectSeq(vtrace, LAMBDA e : e.ev = "sleep")

\* C17: a rate-limited loop that made n model calls has made n - 1 delays
\* when it ends (none when it made no call), every delay lies between two
\* calls, and none follows the last call.
C17_DelaysOnlyBetweenCalls ==
    vpc = "saved" =>
        /\ Len(VSleeps) = (IF Len(VCalls) = 0 THEN 0 ELSE Len(VCalls) - 1)
        /\ \A k \in 1..Len(vtrace) :
              vtrace[k].ev = "sleep" =>
                  /\ k > 1 /\ vtrace[k - 1].ev = "call"
                  /\ k < Len(vtrace) /\ vtrace[k + 1].ev = "call"

\* ====================================================================
\* Properties of the verdict (checked under SpecVerdict and SpecPipeline)
\* ====================================================================

\* C18: judge_verdict is a function of the total score alone: ADOPT_HIGH from
\* 80 up, ADOPT_MID from 65 up to (not including) 80, SKIP below 65, for every
\* score in [0, 100]; so 79 gives ADOPT_MID, 80 gives ADOPT_HIGH, and the
\* largest score below 65 gives SKIP.
C18_VerdictThresholds ==
    verdict # "none" =>
        /\ verdict = "ADOPT_HIGH" <=> total >= Points(80)
        /\ verdict = "ADOPT_MID" <=> (Points(65) <= total /\ total < Points(80))
        /\ verdict = "SKIP" <=> total < Points(65)
        /\ total = Points(79) => verdict = "ADOPT_MID"
        /\ total = Points(80) => verdict = "ADOPT_HIGH"
        /\ total = Points(65) - 1 => verdict = "SKIP"

\* the verdict of the largest score below 65 has been computed
C18_Witness ==
    /\ total = Points(65) - 1
    /\ verdict = "SKIP"

\* the total_score of the payload of a reply, 0 when it has none
PayloadTotal(reply) == GetKey(PayloadOf(reply).obj, "total_score", Num(0))

\* C19: when score_paper ends in a failure (the call raised, the reply has no
\* brace pair, or its brace substring does not parse) its result is an error
\* marker with verdict SKIP, whatever numbers the reply text contains; so it
\* is when judge_verdict raises on a total_score that is not a number.
C19_FailedScoreIsSkip ==
    stage = "score" =>
        \A k \in 1..Len(out) :
            (given[k].exc \/ Malformed(given[k]) \/ ~Usable("score", given[k])) =>
                /\ "error" \in DOMAIN out[k]
                /\ "verdict" \in DOMAIN out[k]
                /\ out[k]["verdict"] = Str("SKIP")

\* score_paper failed on a reply without a brace pair that names the score
\* 95, and on an unparseable reply that names the score 80
C19_Witness ==
    /\ stage = "score"
    /\ Len(out) = 2
    /\ ~HasBracePair(given[1])
    /\ \E k \in 1..Len(given[1].text) : given[1].text[k].val = Num(95)
    /\ HasBracePair(given[2]) /\ ~PayloadOf(given[2]).ok
    /\ \E k \in 1..Len(given[2].text) : given[2].text[k].val = Num(80)
    /\ out[1]["verdict"] = Str("SKIP")
    /\ out[2]["verdict"] = Str("SKIP")

\* C20: the verdict of a successful score_paper result is judge_verdict of
\* the total_score of the payload (0 when the payload has none), whatever
\* verdict the payload itself proposes, and the total_score is the payload's.
C20_VerdictFromTotal ==
    stage = "score" =>
        \A k \in 1..Len(out) :
            Usable("score", given[k]) =>
                /\ "verdict" \in DOMAIN out[k]
                /\ out[k]["verdict"] = Str(judge_verdict(Points(PayloadTotal(given[k]).n)))
                /\ GetKey(out[k], "total_score", Num(0)) = PayloadTotal(given[k])

\* a payload with total_score 60 that proposes ADOPT_HIGH was given SKIP
C20_Witness ==
    /\ stage = "score"
    /\ Len(out) >= 1
    /\ Usable("score", given[1])
    /\ PayloadTotal(given[1]) = Num(60)
    /\ GetKey(PayloadOf(given[1]).obj, "verdict", NoneVal) = Str("ADOPT_HIGH")
    /\ out[1]["verdict"] = Str("SKIP")

\* ====================================================================
\* Properties of select_top_papers (checked under SpecSelect)
\* ====================================================================

\* C21: every element of the list select_top_papers returns joins a paper
\* of the source batch to a result of the input list that has no error key,
\* a total score of at least min_score, and the identifier of that paper.
C21_SelectedAreValid ==
    spc = "returned" =>
        \A k \in 1..Len(selected) :
            LET result == selected[k]["screening"]
            IN  /\ "error" \notin DOMAIN result
                /\ TotalScore(result).n >= min_score
                /\ \E j \in 1..Len(screening_results) : screening_results[j] = result
                /\ result["paper_id"] = selected[k]["id"]
                /\ \E i \in 1..Len(s_papers) : s_papers[i].id = selected[k]["id"]

\* a selection was returned from a list that also held an error marker and
\* a result below the threshold
C21_Witness ==
    /\ spc = "returned"
    /\ Len(selected) = 1
    /\ \E j \in 1..Len(screening_results) : "error" \in DOMAIN screening_results[j]
    /\ \E j \in 1..Len(screening_results) :
          /\ "error" \notin DOMAIN screening_results[j]
          /\ TotalScore(screening_results[j]).n < min_score

\* the total score of the result joined into the k-th returned element
SelectedScore(k) == TotalScore(screening_results[joined[k]]).n

\* C22: the list select_top_papers returns is in descending order of total
\* score, and two elements of equal score are in the order their results
\* had in the input list.
C22_DescendingAndStable ==
    spc = "returned" =>
        /\ Len(selected) = Len(joined)
        /\ \A k \in 1..Len(selected) :
              selected[k]["screening"] = screening_results[joined[k]]
        /\ \A j, k \in 1..Len(selected) :
              j < k =>
                  /\ SelectedScore(j) >= SelectedScore(k)
                  /\ SelectedScore(j) = SelectedScore(k) => joined[j] < joined[k]

\* two results with the same score but different papers were both returned
C22_Witness ==
    /\ spc = "returned"
    /\ Len(selected) = 2
    /\ SelectedScore(1) = SelectedScore(2)
    /\ selected[1]["id"] # selected[2]["id"]

\* the positions of the results that are no error marker and reach min_score
ValidSet ==
    { i \in 1..Len(screening_results) :
        /\ "error" \notin DOMAIN screening_results[i]
        /\ TotalScore(screening_results[i]).n >= min_score }

\* result i ranks before result j: a higher score, or the same score and an
\* earlier position
RanksBefore(i, j) ==
    LET a == TotalScore(screening_results[i]).n
        b == TotalScore(screening_results[j]).n
    IN  a > b \/ (a = b /\ i < j)

HasPaper(i) ==
    \E p \in 1..Len(s_papers) : s_papers[p].id = screening_results[i]["paper_id"]

\* C23: select_top_papers returns at most top_n entries; they come from the
\* top_n highest-ranking valid results (all of them when fewer are valid),
\* in ranking order, each joined to its paper; every one of those results
\* that has a paper in the batch is returned.
C23_TopKValid ==
    spc = "returned" =>
        LET top == { sorted_results[k] : k \in 1..Len(sorted_results) }
        IN  /\ Len(selected) <= top_n
            /\ top \subseteq ValidSet
            /\ Cardinality(top) = Len(sorted_results)
            /\ Len(sorted_results) =
                   (IF Cardinality(ValidSet) < top_n THEN Cardinality(ValidSet) ELSE top_n)
            /\ \A i \in top, j \in ValidSet \ top : RanksBefore(i, j)
            /\ \A j, k \in 1..Len(sorted_results) :
                  j < k => RanksBefore(sorted_results[j], sorted_results[k])
            /\ { joined[k] : k \in 1..Len(joined) } = { i \in top : HasPaper(i) }
            /\ \A j, k \in 1..Len(joined) : j < k => RanksBefore(joined[j], joined[k])
            /\ \A k \in 1..Len(joined) :
                  /\ selected[k]["screening"] = screening_results[joined[k]]
                  /\ selected[k]["id"] = screening_results[joined[k]]["paper_id"]

\* three valid results, top_n = 2: the two best were returned, the third
\* was cut off
C23_Witness ==
    /\ spc = "returned"
    /\ Cardinality(ValidSet) = 3
    /\ top_n = 2
    /\ Len(selected) = 2
    /\ SelectedScore(1) > SelectedScore(2)
    /\ \E i \in ValidSet : HasPaper(i) /\ \A k \in 1..Len(joined) : joined[k] # i

\* the first paper of the batch with the identifier id
FirstPaper(id) ==
    s_papers[CHOOSE i \in 1..Len(s_papers) :
                /\ s_papers[i].id = id
                /\ \A j \in 1..i - 1 : s_papers[j].id # id]

\* C24: when the batch holds several papers with one identifier, the index
\* maps the identifier to the first of them: every returned element is made
\* of the first paper of the batch that has its identifier.
C24_FirstPaperWins ==
    spc = "returned" =>
        \A k \in 1..Len(selected) :
            selected[k]["title"] = FirstPaper(selected[k]["id"]).title

\* C25: when the result list holds several results with one identifier only
\* the first of them is considered, so no identifier occurs twice in the
\* list select_top_papers returns.
C25_NoIdentifierTwice ==
    spc = "returned" =>
        \A j, k \in 1..Len(selected) :
            j # k => selected[j]["id"] # selected[k]["id"]

\* C26: a surviving result whose identifier is not in the item index is
\* dropped without an error: select_top_papers raises only when a score
\* cannot be compared, and what it returns is made of the surviving results
\* that have a paper, all of them, unchanged and in their order.
C26_MissingPaperDropped ==
    /\ spc = "raised" => ComparisonRaises(screening_results)
    /\ spc = "returned" =>
          /\ joined = SelectSeq(sorted_results, HasPaper)
          /\ Len(selected) = Len(joined)
          /\ \A k \in 1..Len(joined) :
                /\ selected[k]["screening"] = screening_results[joined[k]]
                /\ DOMAIN selected[k] = { "id", "title", "screening" }

\* the best surviving result has no paper in the batch, the second has one
\* and was returned
C26_Witness ==
    /\ spc = "returned"
    /\ Len(sorted_results) = 2
    /\ ~HasPaper(sorted_results[1])
    /\ HasPaper(sorted_results[2])
    /\ Len(selected) = 1
    /\ selected[1]["screening"] = screening_results[sorted_results[2]]

\* ====================================================================
\* Properties of the stages together (checked under SpecStages)
\* ====================================================================

\* C27: no step of an annotation pipeline or of select_top_papers changes
\* what it was handed: the papers, the scores and the results are after the
\* step what they were before it, and a returned element is a new record
\* made of the fields of a paper and the result under the key screening.
C27_InputsUnchanged ==
    [][ /\ batch' = batch
        /\ scores' = scores
        /\ s_papers' = s_papers
        /\ screening_results' = screening_results
        /\ \A k \in 1..Len(selected') :
              /\ DOMAIN selected'[k] = { "id", "title", "screening" }
              /\ \E i \in 1..Len(s_papers') :
                    /\ DOMAIN s_papers'[i] = { "id", "title" }
                    /\ s_papers'[i].id = selected'[k]["id"]
                    /\ s_papers'[i].title = selected'[k]["title"]
              /\ \E j \in 1..Len(screening_results') :
                    screening_results'[j] = selected'[k]["screening"] ]_vars

\* select_top_papers has returned two joined records and the papers are
\* as they were
C27_Witness ==
    /\ spc = "returned"
    /\ Len(selected) = 2
    /\ selected[1]["id"] # selected[2]["id"]
    /\ \A i \in 1..Len(s_papers) : DOMAIN s_papers[i] = { "id", "title" }

\* ====================================================================
\* Properties of the result fields and of the formatting steps
\* ====================================================================

SingleLineKeys == { "hook", "line1", "line2", "ending", "one_line_summary" }

\* the string has a line feed or a carriage return
HasLineBreak(v) ==
    /\ "cs" \in DOMAIN v
    /\ \E k \in 1..Len(v.cs) : v.cs[k] \in { "\n", "\r" }

\* C28: in every result without an error key, the fields hook, line1,
\* line2, ending and one_line_summary hold no line feed and no carriage
\* return, whatever the reply was.
C28_SingleLineFields ==
    \A k \in 1..Len(out) :
        "error" \notin DOMAIN out[k] =>
            \A key \in SingleLineKeys \cap DOMAIN out[k] : ~HasLineBreak(out[k][key])

\* the positions of the list that hold an error marker
MarkerPositions == { i \in 1..Len(e_results) : "error" \in DOMAIN e_results[i] }

\* C29: the formatting steps skip error markers: no row of the Canva CSV, no
\* row of the translated CSV and no entry of the daily summary is made from
\* a result that carries an error marker.
C29_MarkersSkipped ==
    epc = "written" =>
        /\ \A k \in 1..Len(canva_rows) : canva_rows[k].src \notin MarkerPositions
        /\ \A k \in 1..Len(csv_rows) : csv_rows[k].src \notin MarkerPositions
        /\ \A k \in 1..Len(summary) : summary[k].src \notin MarkerPositions

\* ====================================================================
\* Properties of main (checked under SpecMain)
\* ====================================================================

\* C30: a missing model credential is reported once, at the start of the
\* run, before any per-item work: a run whose credential is missing never
\* does per-item work, and reports it at most once.
C30_MissingKeyAtStartup ==
    /\ surfaced <= 1
    /\ ~api_key => work = << >>

\* ====================================================================
\* Further properties of the acquisition stage (checked under Spec)
\* ====================================================================

\* C31: the step in which attempt k of a fetch succeeds (k < MAX_RETRIES, the
\* k attempts before it having failed) is the fetch's request number k + 1; it
\* replaces the destination by the whole payload in one write, the only write
\* of the fetch, touches no other file and stores success under the item's
\* identifier; a resolved fetch makes no further request, wait or write.
C31_FirstSuccessStops ==
    [][ \A i \in Tasks :
          /\ (run' = run /\ pc[i] = "get" /\ pc'[i] = "done") =>
                /\ attempt[i] < MAX_RETRIES
                /\ failures'[i] = attempt[i]
                /\ requests'[i] = attempt[i] + 1
                /\ Len(waits'[i]) = attempt[i]
                /\ fileWrites'[i] = 1
                /\ disk'[OutputPath(papers[i])] = WholeFile(papers[i].id)
                /\ \A p \in Paths \ { OutputPath(papers[i]) } :
                      disk'[p] = disk[p]
                /\ ret'[i] = "ok"
                /\ results'[papers[i].id] = TRUE
          /\ (run' = run /\ pc[i] = "done") =>
                /\ pc'[i] = "done"
                /\ ret'[i] = ret[i]
                /\ requests'[i] = requests[i]
                /\ waits'[i] = waits[i]
                /\ fileWrites'[i] = fileWrites[i]
      ]_vars

\* a fetch has succeeded at its last attempt (k = 2) while the other item of
\* the batch, heading for the same destination file, had already written it
C31_Witness ==
    \E i, j \in Tasks :
        /\ i # j
        /\ OutputPath(papers[i]) = OutputPath(papers[j])
        /\ pc[i] = "done" /\ ret[i] = "ok"
        /\ failures[i] = MAX_RETRIES - 1
        /\ requests[i] = MAX_RETRIES
        /\ fileWrites[i] = 1
        /\ fileWrites[j] = 1
        /\ disk[OutputPath(papers[i])] = WholeFile(papers[i].id)
        /\ papers[i].id # papers[j].id

\* C32: in one call of download_papers_batch, under the fairness of the event
\* loop and with every GET and every sleep ending, there comes a moment from
\* which every item has resolved, to success or to failure, and the call has
\* returned, whatever the cap and however many items exhaust their retries:
\* an item that waits for a slot gets the one a failing item held.
C32_EveryItemResolves ==
    <>[](/\ phase = "returned"
         /\ \A i \in Tasks : pc[i] = "done" /\ ret[i] \in { "ok", "fail" })

\* with a cap of one, a batch of two has returned: one item exhausted its
\* retries, the other one was downloaded
C32_Witness ==
    /\ phase = "returned"
    /\ max_concurrent = 1
    /\ Len(papers) = 2
    /\ \E i, j \in Tasks :
          /\ failures[i] = MAX_RETRIES /\ returned[papers[i].id] = FALSE
          /\ requests[j] >= 1 /\ fileWrites[j] = 1
          /\ returned[papers[j].id] = TRUE

\* ====================================================================
\* Properties of filter_by_verdict (checked under SpecFilter)
\* ====================================================================

\* the verdicts that pass: ADOPT_HIGH, and ADOPT_MID when include_mid is true
Passing ==
    IF include_mid THEN { "ADOPT_HIGH", "ADOPT_MID" } ELSE { "ADOPT_HIGH" }

\* the positions of scores whose result has a passing verdict
Kept ==
    { i \in 1..Len(f_scores) :
        /\ "verdict" \in DOMAIN f_scores[i]
        /\ f_scores[i]["verdict"].ty = "str"
        /\ f_scores[i]["verdict"].s \in Passing }

\* r is one of the two error returns of score_paper
IsScoreMarker(r) ==
    /\ DOMAIN r = { "paper_id", "error", "verdict" }
    /\ r = ErrorMarker("score", [id |-> r["paper_id"]], r["error"].s)

\* C33: filter_by_verdict returns the results with a passing verdict, all of
\* them, each once and in input order; an error return of score_paper or a
\* result with verdict SKIP is never among them.
C33_FilterByVerdict ==
    fpc = "returned" =>
        /\ Len(filtered) = Cardinality(Kept)
        /\ \E at \in [1..Len(filtered) -> Kept] :
              /\ \A k \in 1..Len(filtered) : filtered[k] = f_scores[at[k]]
              /\ \A k, l \in 1..Len(filtered) : k < l => at[k] < at[l]
        /\ \A k \in 1..Len(filtered) :
              /\ ~IsScoreMarker(filtered[k])
              /\ filtered[k]["verdict"] # Str("SKIP")

\* a call with include_mid false has returned the one ADOPT_HIGH result of a
\* list that also holds an ADOPT_MID result and an error return
C33_Witness ==
    /\ fpc = "returned"
    /\ ~include_mid
    /\ Len(f_scores) = 3
    /\ Len(filtered) = 1
    /\ filtered[1] = f_scores[2]
    /\ GetKey(f_scores[1], "verdict", NoneVal) = Str("ADOPT_MID")
    /\ IsScoreMarker(f_scores[3])

\* ====================================================================
\* Further properties of process_papers (checked under SpecVideo)
\* ====================================================================

\* the positions of shorts_scores whose verdict is ADOPT_HIGH or ADOPT_MID
AdoptPositions ==
    { i \in 1..Len(vscores) :
        GetKey(vscores[i], "verdict", NoneVal)
            \in { Str("ADOPT_HIGH"), Str("ADOPT_MID") } }

\* C34: the candidates of process_papers are the score results with verdict
\* ADOPT_HIGH or ADOPT_MID, each once, in descending total_score order with
\* ties in input order; the model calls go through them in that order, at
\* most one each, and every text, every audio synthesis and every render
\* belongs to one of them, so that a result with verdict SKIP, which every
\* error return of score_paper is, triggers none.
C34_OnlyAdoptInScoreOrder ==
    /\ Len(vcands) = Cardinality(AdoptPositions)
    /\ \E at \in [1..Len(vcands) -> AdoptPositions] :
          /\ \A k \in 1..Len(vcands) : vcands[k] = vscores[at[k]]
          /\ \A k, l \in 1..Len(vcands) :
                k < l =>
                    \/ SortKey(vscores[at[k]]) > SortKey(vscores[at[l]])
                    \/ /\ SortKey(vscores[at[k]]) = SortKey(vscores[at[l]])
                       /\ at[k] < at[l]
    /\ \A k \in 1..Len(VCalls) :
          /\ VCalls[k].i + 1 \in 1..Len(vcands)
          /\ k > 1 => VCalls[k - 1].i < VCalls[k].i
    /\ \A k \in 1..Len(vmade) :
          /\ vmade[k].index \in 1..Len(vcands)
          /\ \E c \in 1..Len(VCalls) : VCalls[c].i + 1 = vmade[k].index
          /\ vmade[k].text["paper_id"] = vcands[vmade[k].index]["paper_id"]
    /\ \A k \in 1..Len(vaudio) :
          /\ vaudio[k].index \in 1..Len(vcands)
          /\ vaudio[k].paper_id = vcands[vaudio[k].index]["paper_id"]
    /\ \A k \in 1..Len(vrenders) :
          \E a \in 1..Len(vaudio) : vrenders[k].audio = vaudio[a]

\* process_papers has returned for a SKIP result followed by an ADOPT result:
\* it made one model call, one audio synthesis and one render, all for the
\* second
C34_Witness ==
    /\ vpc = "returned"
    /\ Len(vscores) = 2
    /\ vscores[1]["verdict"] = Str("SKIP")
    /\ AdoptPositions = { 2 }
    /\ VCalls = << [ev |-> "call", i |-> 0] >>
    /\ Len(vaudio) = 1 /\ vaudio[1].paper_id = vscores[2]["paper_id"]
    /\ Len(vrenders) = 1

\* C35: every audio synthesis is for a candidate whose text was generated
\* without error; every render is for an item of audio_results whose
\* synthesis succeeded, each item at most once, and makes one entry of
\* video_results; so the three counts are ordered at every moment, and in the
\* summary process_papers returns:
\* video_generated <= audio_generated <= total_processed.
C35_CountsOrdered ==
    /\ \A k \in 1..Len(vaudio) :
          /\ \E m \in 1..Len(vmade) :
                /\ vmade[m].index = vaudio[k].index
                /\ "error" \notin DOMAIN vmade[m].text
          /\ \A l \in 1..Len(vaudio) :
                k # l => vaudio[k].index # vaudio[l].index
    /\ Len(vvideo) = Len(vrenders)
    /\ \A k \in 1..Len(vrenders) :
          /\ vrenders[k].audio.success
          /\ vrenders[k].index = vrenders[k].audio.index
          /\ vvideo[k].index = vrenders[k].index
          /\ \A l \in 1..Len(vrenders) :
                k # l => vrenders[k].index # vrenders[l].index
    /\ LET now == Summary(vresults, vaudio, vvideo)
       IN  /\ now.video_generated <= now.audio_generated
           /\ now.audio_generated <= now.total_processed
    /\ vpc = "returned" =>
          /\ vsummary = Summary(vresults, vaudio, vvideo)
          /\ vsummary.video_generated <= vsummary.audio_generated
          /\ vsummary.audio_generated <= vsummary.total_processed

\* process_papers has returned after two texts, one of them an error marker,
\* one audio synthesis that succeeded and one render that succeeded
C35_Witness ==
    /\ vpc = "returned"
    /\ vsummary = [total_processed |-> 2, audio_generated |-> 1,
                   video_generated |-> 1]
    /\ \E k \in 1..Len(vresults) : "error" \in DOMAIN vresults[k]

\* C36: every render_video call is handed the texts of the canva_text that
\* was generated for the candidate whose audio it is handed (the one with the
\* same index), also when an earlier candidate was skipped for want of a
\* paper.
C36_VideoUsesOwnText ==
    \A k \in 1..Len(vrenders) :
        \E m \in 1..Len(vmade) :
            /\ vmade[m].index = vrenders[k].audio.index
            /\ vrenders[k].from = vmade[m].text
            /\ vrenders[k].texts = Texts(vmade[m].text)

\* ====================================================================
\* Further properties of the acquisition stage (checked under Spec)
\* ====================================================================

\* what a resolved item without a locator has done: it returned failure and
\* made no request, no wait and no write
NoLocatorDidNothing(i) ==
    /\ ret[i] = "fail"
    /\ requests[i] = 0
    /\ failures[i] = 0
    /\ waits[i] = << >>
    /\ fileWrites[i] = 0
    /\ papers[i].id \in DOMAIN results

\* C37 as claimed: an item without a locator resolves to failure with no
\* request, no wait and no write, and is False in the outcome map, in every
\* batch.
C37_NoLocatorIsFalse ==
    \A i \in Tasks :
        (~papers[i].pdf_url /\ pc[i] = "done") =>
            /\ NoLocatorDidNothing(i)
            /\ results[papers[i].id] = FALSE
            /\ phase = "returned" => returned[papers[i].id] = FALSE

\* C37 as amended: an item without a locator resolves to failure with no
\* request, no wait and no write and has an entry in the outcome map; the
\* entry is False when no other item of the batch has the same identifier.
C37_NoLocatorIsFalseWhenAlone ==
    \A i \in Tasks :
        (~papers[i].pdf_url /\ pc[i] = "done") =>
            /\ NoLocatorDidNothing(i)
            /\ (\A j \in Tasks \ {i} : papers[j].id # papers[i].id) =>
                  /\ results[papers[i].id] = FALSE
                  /\ phase = "returned" => returned[papers[i].id] = FALSE

\* a batch of two items with different identifiers has returned: the one
\* without a locator is False and made no request, the other was downloaded
C37_Witness ==
    /\ phase = "returned"
    /\ \E i, j \in Tasks :
          /\ papers[i].id # papers[j].id
          /\ ~papers[i].pdf_url
          /\ requests[i] = 0 /\ waits[i] = << >> /\ fileWrites[i] = 0
          /\ returned[papers[i].id] = FALSE
          /\ papers[j].pdf_url
          /\ fileWrites[j] = 1
          /\ returned[papers[j].id] = TRUE

\* C38: two items with different identifiers for which download_pdf_async
\* has computed the destination (both have a locator) never have the same
\* destination file, and the file of every item reported as success holds
\* the payload of that item.
C38_DistinctIdsDistinctFiles ==
    /\ \A i, j \in Tasks :
          (/\ papers[i].id # papers[j].id
           /\ papers[i].pdf_url /\ pc[i] # "pending"
           /\ papers[j].pdf_url /\ pc[j] # "pending")
              => OutputPath(papers[i]) # OutputPath(papers[j])
    /\ \A i \in Tasks :
          (pc[i] = "done" /\ ret[i] = "ok") =>
              disk[OutputPath(papers[i])].payload = papers[i].id

\* ====================================================================
\* Further properties of select_top_papers (checked under SpecSelect)
\* ====================================================================

\* C39: when at least top_n results are valid and have their paper in the
\* batch, select_top_papers returns exactly top_n entries, whatever other
\* valid results there are whose paper is absent.
C39_ExactlyTopN ==
    spc = "returned" =>
        (Cardinality({ i \in ValidSet : HasPaper(i) }) >= top_n
            => Len(selected) = top_n)


====
